---- MODULE Spec2Model ----
(***************************************************************************)
(* Solar energy model (solar_energy_model/model.py, validator.py and       *)
(* solar_power_plants.py): the sizing resolver x03GetAvailableArea, the    *)
(* region selector x04GetRegions and the thermal/PV steps that use them.   *)
(*                                                                         *)
(* Six specifications share the module:                                   *)
(*   SpecSizing  the payload's sizing triple of one technology, through    *)
(*               the validator's null-combination rule and the resolver;   *)
(*   Spec        one run of executeModel over a catalogue: s02, s05, s06;  *)
(*   SpecProcess one call of executeSolarEnergyModelProcess from the       *)
(*               selected rows on: the collaborator queries one by one,    *)
(*               the blend, the results, the output filter and the return; *)
(*   SpecValidator  main: the whole payload through validateProcessPayload *)
(*               and, if it returns, on to the model;                      *)
(*   SpecCommandLine  main: sys.argv through validateCommandLineParameters;*)
(*   SpecReconcile  the loop of s05 that removes the thermal areas from the *)
(*               PV catalogue, run on its own, once or twice.              *)
(***************************************************************************)
EXTENDS Integers, Sequences, FiniteSets, TLC

VARIABLES
    \* ---- sizing (SpecSizing) ----
    spc,          \* position: "payload", "checked", "ready", "resolved", "recomputed"
    payload,      \* [area, power, capex] of one technology as loaded, None or a float
    checked,      \* the same fields of the payload that reaches executeModel
    parameters,   \* listParametersTH / listParametersPV built by s01
    cost,         \* system cost of the technology
    landUse,      \* land use ratio of the technology
    validated,    \* whether validateProcessPayload ran on the payload
    resolved,     \* what x03GetAvailableArea returned (or the exception)
    given,        \* the field kept for the second resolution (1, 2 or 3)
    again,        \* x03GetAvailableArea on that single field of `resolved`
    \* ---- one run of executeModel (Spec) ----
    pc,           \* position: "s02", "s05", "s06", "s07" (s06 returned), "failed"
    scadaTH,      \* thermal catalogue (dfScadaTH)
    scadaPV,      \* photovoltaic catalogue (dfScadaPV)
    areaTH,       \* target thermal area
    minGhiTH,     \* thermal floor
    rowsTH,       \* rows x04GetRegions returned to s05
    selTH,        \* name and number of rows read by the thermal selection
    areaPV,       \* target photovoltaic area
    minGhiPV,     \* photovoltaic floor
    rowsPV,       \* rows x04GetRegions returned to s06
    selPV,        \* name and number of rows read by the PV selection
    error,        \* the exception that ended the run, or None
    \* ---- one call of executeSolarEnergyModelProcess (SpecProcess) ----
    ppc,            \* position: "x05", "x06", "s07", "s09", "except", "returned"
    queries,        \* the queries sent to the resource collaborator, in order
    prodTH,         \* x05GetThermalProduction's list `production`
    dniTH,          \* region['radiation'] of the thermal rows queried so far
    pvPower,        \* region['pv_power'] of every PV row, None until it is set
    prodPVTracking, \* x06GetPVProduction's list, pass with tracking = 1
    prodPVFixed,    \* x06GetPVProduction's list, pass with tracking = 0
    tracking,       \* payload['tracking_percentage'] (tracking = this / 100)
    prodPV,         \* the blended list of s06
    output,         \* what executeModel returned: the hourly table and the dictionary
    resultFiltered, \* the table cut to the requested window, once it has been cut
    result,         \* what executeSolarEnergyModelProcess returned, once it has
    \* ---- main: the payload through validateProcessPayload (SpecValidator) ----
    processPayload, \* the payload loaded from the input file: property -> value
    outcome,        \* what validateProcessPayload returned (or the exception)
    started,        \* whether main called executeSolarEnergyModelProcess
    outcomeAgain,   \* validateProcessPayload on the payload it returned
    \* ---- main: the command line (SpecCommandLine) ----
    argv,           \* sys.argv: a list of strings (sequences of characters)
    argvOutcome,    \* what validateCommandLineParameters returned (or the exception)
    \* ---- the reconciliation loop of s05 on its own (SpecReconcile) ----
    allocs,         \* the thermal allocations at hand: lists of rows
    applied         \* which of them were subtracted from scadaPV, in order

sizingVars == <<spc, payload, checked, parameters, cost, landUse, validated, resolved, given, again>>
runVars == <<pc, scadaTH, scadaPV, areaTH, minGhiTH, rowsTH, selTH,
             areaPV, minGhiPV, rowsPV, selPV, error>>
processVars == <<ppc, queries, prodTH, dniTH, pvPower, prodPVTracking, prodPVFixed, tracking, prodPV,
                 output, resultFiltered, result>>
validatorVars == <<processPayload, outcome, started, outcomeAgain>>
commandVars == <<argv, argvOutcome>>
reconcileVars == <<allocs, applied>>
vars == <<sizingVars, runVars, processVars, validatorVars, commandVars, reconcileVars>>

\* Python's None, and a raised exception, as records (TLC compares records).
None == [none |-> TRUE]
Raised(name) == [exc |-> name]

(***************************************************************************)
(* Python floats.  A float is m * 2^e with a mantissa of MantBits bits     *)
(* (53 in CPython; the model keeps the rounding and narrows the width so   *)
(* that products stay inside TLC's integers).  Every operation rounds to   *)
(* nearest, ties to even, as IEEE 754 does.  Only non-negative values are  *)
(* needed: the validator replaces a negative sizing field by 0.            *)
(***************************************************************************)
MantBits == 14

RECURSIVE BitLen(_)
BitLen(n) == IF n = 0 THEN 0 ELSE 1 + BitLen(n \div 2)

FZero == [m |-> 0, e |-> 0]

\* The float nearest to n * 2^e, n a natural number.
FRound(n, e) ==
    IF n = 0 THEN FZero
    ELSE LET len == BitLen(n) IN
         IF len <= MantBits
         THEN [m |-> n * 2^(MantBits - len), e |-> e - (MantBits - len)]
         ELSE LET k    == len - MantBits
                  q    == n \div 2^k
                  r    == n % 2^k
                  half == 2^(k - 1)
                  q1   == IF r > half \/ (r = half /\ q % 2 = 1) THEN q + 1 ELSE q
              IN IF q1 = 2^MantBits
                 THEN [m |-> 2^(MantBits - 1), e |-> e + k + 1]
                 ELSE [m |-> q1, e |-> e + k]

FromInt(n) == FRound(n, 0)

FMul(a, b) == FRound(a.m * b.m, a.e + b.e)

\* a / b for b # 0: the quotient to MantBits + 1 bits and a sticky bit.
FDiv(a, b) ==
    IF a.m = 0 THEN FZero
    ELSE LET n == a.m * 2^(MantBits + 1)
             q == n \div b.m
             s == IF n % b.m = 0 THEN 0 ELSE 1
         IN FRound(2 * q + s, a.e - b.e - MantBits - 2)

\* The literal 1.0e+06 of model.py.
Million == FromInt(1000000)


(***************************************************************************)
(* Sizing: validator.py lines 129-208 and model.py lines 507-536.          *)
(***************************************************************************)
FieldValues == {FromInt(0), FromInt(1), FromInt(7), FromInt(1000)}
CostValues == {FZero, FromInt(1), FromInt(3), FDiv(FromInt(1), FromInt(5))}
LandUseValues == {FromInt(25), FromInt(60), FromInt(100)}

Triple(area, power, capex) == [area |-> area, power |-> power, capex |-> capex]
IsTriple(t) == DOMAIN t = {"area", "power", "capex"}
IsRaised(t) == DOMAIN t = {"exc"}

\* Mutant: the validator without its null-combination rule.
validateCombination_absent(p) == p

\* validateProcessPayload, the combination rule of one technology: three
\* nulls become area 0 (the values of this model are all inside the ranges
\* the validator checks, so its range rules leave them alone).
validateCombination(p) ==
    IF p[1] = None /\ p[2] = None /\ p[3] = None
    THEN <<FZero, None, None>>
    ELSE p

\* Mutant: the last non-null field instead of the first.
FirstNonNull_last(p) ==
    IF p[3] # None THEN 2
    ELSE IF p[2] # None THEN 1
    ELSE IF p[1] # None THEN 0
    ELSE -1

\* next((i for i, value in enumerate(parameters) if value is not None), -1)
FirstNonNull(p) ==
    IF p[1] # None THEN 0
    ELSE IF p[2] # None THEN 1
    ELSE IF p[3] # None THEN 2
    ELSE -1

\* x / y of Python: ZeroDivisionError when y is zero.
PyDiv(x, y) == IF y.m = 0 THEN Raised("ZeroDivisionError") ELSE FDiv(x, y)

\* Mutant: the area branch forgets the division by 1.0e+06.
x03GetAvailableArea_unscaled(p, c, lu) ==
    LET index == FirstNonNull(p) IN
    IF index = 2
    THEN LET power == PyDiv(p[3], FMul(c, Million)) IN
         IF IsRaised(power) THEN power
         ELSE LET area == PyDiv(FMul(power, Million), lu) IN
              IF IsRaised(area) THEN area
              ELSE Triple(area, power, p[3])
    ELSE IF index = 1
    THEN LET area == PyDiv(FMul(p[2], Million), lu) IN
         IF IsRaised(area) THEN area
         ELSE Triple(area, p[2], FMul(FMul(p[2], c), Million))
    ELSE IF p[1] = None
    THEN Raised("TypeError")
    ELSE LET power == FMul(p[1], lu) IN
         Triple(p[1], power, FMul(FMul(power, c), Million))

\* Mutant: the capex branch divides by the cost alone (cost per W, not per MW).
x03GetAvailableArea_perWatt(p, c, lu) ==
    LET index == FirstNonNull(p) IN
    IF index = 2
    THEN LET power == PyDiv(p[3], c) IN
         IF IsRaised(power) THEN power
         ELSE LET area == PyDiv(FMul(power, Million), lu) IN
              IF IsRaised(area) THEN area
              ELSE Triple(area, power, p[3])
    ELSE IF index = 1
    THEN LET area == PyDiv(FMul(p[2], Million), lu) IN
         IF IsRaised(area) THEN area
         ELSE Triple(area, p[2], FMul(FMul(p[2], c), Million))
    ELSE IF p[1] = None
    THEN Raised("TypeError")
    ELSE LET power == PyDiv(FMul(p[1], lu), Million) IN
         Triple(p[1], power, FMul(FMul(power, c), Million))

x03GetAvailableArea(p, c, lu) ==
    LET index == FirstNonNull(p) IN
    IF index = 2
    THEN LET power == PyDiv(p[3], FMul(c, Million)) IN
         IF IsRaised(power) THEN power
         ELSE LET area == PyDiv(FMul(power, Million), lu) IN
              IF IsRaised(area) THEN area
              ELSE Triple(area, power, p[3])
    ELSE IF index = 1
    THEN LET area == PyDiv(FMul(p[2], Million), lu) IN
         IF IsRaised(area) THEN area
         ELSE Triple(area, p[2], FMul(FMul(p[2], c), Million))
    ELSE IF p[1] = None
    THEN Raised("TypeError")            \* None * landUse
    ELSE LET power == PyDiv(FMul(p[1], lu), Million) IN
         Triple(p[1], power, FMul(FMul(power, c), Million))

\* The triple that holds field h of t alone.
OnlyField(t, h) ==
    <<IF h = 1 THEN t.area ELSE None,
      IF h = 2 THEN t.power ELSE None,
      IF h = 3 THEN t.capex ELSE None>>

InitRunIdle ==
    /\ pc = "idle" /\ scadaTH = <<>> /\ scadaPV = <<>>
    /\ areaTH = 0 /\ minGhiTH = 0 /\ rowsTH = <<>> /\ selTH = None
    /\ areaPV = 0 /\ minGhiPV = 0 /\ rowsPV = <<>> /\ selPV = None
    /\ error = None

\* The variables of SpecProcess and SpecValidator outside them.
Pending == [pending |-> TRUE]

InitValidatorIdle ==
    /\ processPayload = None /\ outcome = Pending /\ started = FALSE
    /\ outcomeAgain = Pending

InitCommandIdle ==
    /\ argv = <<>> /\ argvOutcome = Pending

InitReconcileIdle ==
    /\ allocs = <<>> /\ applied = <<>>

InitProcessIdle ==
    /\ ppc = "idle" /\ queries = <<>>
    /\ dniTH = <<>> /\ pvPower = <<>>
    /\ prodTH = <<>> /\ prodPVTracking = <<>> /\ prodPVFixed = <<>>
    /\ tracking = 0 /\ prodPV = <<>>
    /\ output = None /\ resultFiltered = None /\ result = Pending

NoTriple == <<None, None, None>>

InitSizing ==
    /\ spc = "payload"
    /\ payload \in [1..3 -> FieldValues \cup {None}]
    /\ checked = NoTriple /\ parameters = NoTriple
    /\ cost \in CostValues
    /\ landUse \in LandUseValues
    /\ validated = FALSE
    /\ resolved = None /\ given = 0 /\ again = None
    /\ InitRunIdle
    /\ InitProcessIdle
    /\ InitValidatorIdle
    /\ InitCommandIdle
    /\ InitReconcileIdle

\* main: validateProcessPayload before executeSolarEnergyModelProcess.
validateProcessPayload ==
    /\ spc = "payload"
    /\ checked' = validateCombination(payload)
    /\ validated' = TRUE
    /\ spc' = "checked"
    /\ UNCHANGED <<payload, parameters, cost, landUse, resolved, given, again, runVars, processVars, validatorVars, commandVars, reconcileVars>>

\* The tests hand their payload to executeSolarEnergyModelProcess directly.
executeUnvalidated ==
    /\ spc = "payload"
    /\ checked' = payload
    /\ spc' = "checked"
    /\ UNCHANGED <<payload, parameters, cost, landUse, validated, resolved, given, again,
                   runVars, processVars, validatorVars, commandVars, reconcileVars>>

\* listParametersTH = [areaAvailableTH, powerTH, capexTH] (and the PV list)
s01BuildSpecificConfiguration ==
    /\ spc = "checked"
    /\ parameters' = <<checked[1], checked[2], checked[3]>>
    /\ spc' = "ready"
    /\ UNCHANGED <<payload, checked, cost, landUse, validated, resolved, given, again,
                   runVars, processVars, validatorVars, commandVars, reconcileVars>>

\* s03CalculateAvailableThermalArea / s04CalculateAvailablePVArea
s03CalculateAvailableArea ==
    /\ spc = "ready"
    /\ resolved' = x03GetAvailableArea(parameters, cost, landUse)
    /\ spc' = "resolved"
    /\ UNCHANGED <<payload, checked, parameters, cost, landUse, validated, given, again,
                   runVars, processVars, validatorVars, commandVars, reconcileVars>>

\* The resolver again, on one field of its own result.
Recompute ==
    /\ spc = "resolved"
    /\ IsTriple(resolved)
    /\ \E h \in 1..3 :
         /\ given' = h
         /\ again' = x03GetAvailableArea(OnlyField(resolved, h), cost, landUse)
    /\ spc' = "recomputed"
    /\ UNCHANGED <<payload, checked, parameters, cost, landUse, validated, resolved,
                   runVars, processVars, validatorVars, commandVars, reconcileVars>>

NextSizing ==
    \/ validateProcessPayload
    \/ executeUnvalidated
    \/ s01BuildSpecificConfiguration
    \/ s03CalculateAvailableArea
    \/ Recompute

SpecSizing == InitSizing /\ [][NextSizing]_vars

(***************************************************************************)
(* One run of executeModel over a catalogue: s02LoadPreviousResult,        *)
(* s05CalculateThermalProduction, s06CalculatePVProduction.                *)
(*                                                                         *)
(* A catalogue row holds the columns the selection and the reconciliation  *)
(* read: Region, Threshold, Area_m2, Median_Radiation.  A Region is a      *)
(* string, kept as the sequence of its characters so that Region[:-1] is   *)
(* computed.  Areas are whole square metres.                               *)
(***************************************************************************)
MaxRows == 2

Areas == {0, 1, 2}
Targets == {0, 1, 2, 3}
Regions == {<<"E", "1">>, <<"E", "1", "a">>, <<"E", "1", "b">>}
Thresholds == {1, 2}
Radiations == {1, 2}
Floors == {1, 2}

Row(r, t, a, g) == [Region |-> r, Threshold |-> t, Area_m2 |-> a, Median_Radiation |-> g]
CatalogueRows == {Row(r, t, a, g) : r \in Regions, t \in Thresholds, a \in Areas, g \in Radiations}

Key(row) == <<row.Region, row.Threshold>>

\* sort_values(by='Median_Radiation', ascending=False)
SortedDescending(cat) ==
    \A i \in 1..(Len(cat) - 1) : cat[i].Median_Radiation >= cat[i + 1].Median_Radiation

\* The dataset is keyed by (Region, Threshold): no key twice.
UniqueKeys(cat) ==
    \A i, j \in DOMAIN cat : Key(cat[i]) = Key(cat[j]) => i = j

Catalogues ==
    {cat \in UNION {[1..n -> CatalogueRows] : n \in 1..MaxRows} :
        SortedDescending(cat) /\ UniqueKeys(cat)}

\* row['Region'][:-1]
StripLast(r) == IF Len(r) = 0 THEN r ELSE SubSeq(r, 1, Len(r) - 1)

\* nameNuts2 before the first row: nameNuts2 = None
NoName == <<"None">>

\* Mutant: the floor is not tested.
Qualifies_noFloor(row, nameNuts2, minGHI) ==
    /\ row.Area_m2 > 0
    /\ row.Region # nameNuts2

\* Mutant: the row of the region itself is not passed over.
Qualifies_withRegionRow(row, nameNuts2, minGHI) ==
    /\ row.Area_m2 > 0
    /\ row.Threshold >= minGHI

\* Line 560: the row takes part in the selection.
Qualifies(row, nameNuts2, minGHI) ==
    /\ row.Area_m2 > 0
    /\ row.Region # nameNuts2
    /\ row.Threshold >= minGHI

\* Mutant: >= for >, so a row that fits exactly is treated as the last one.
Exceeds_orEqual(currentSum, row, area) == currentSum + row.Area_m2 >= area

\* Line 561: the row does not fit in what is left of the target.
Exceeds(currentSum, row, area) == currentSum + row.Area_m2 > area

\* Mutant: the last row keeps its whole area.
TruncatedArea_whole(row, area, currentSum) == row.Area_m2

\* Line 562: the area given to the row that does not fit.
TruncatedArea(row, area, currentSum) == area - currentSum

\* The loop of x04GetRegions from row i on.  `read` is the number of rows the
\* loop has iterated over when it ends (all of them unless it breaks).
RECURSIVE x04Loop(_, _, _, _, _, _, _)
x04Loop(scada, area, minGHI, i, currentSum, nameNuts2, rows) ==
    IF i > Len(scada)
    THEN [rows |-> rows, nameNuts2 |-> nameNuts2, read |-> Len(scada)]
    ELSE LET row  == scada[i]
             name == IF nameNuts2 = NoName THEN StripLast(row.Region) ELSE nameNuts2
         IN IF Qualifies(row, name, minGHI)
            THEN IF Exceeds(currentSum, row, area)
                 THEN LET cut == [row EXCEPT !.Area_m2 = TruncatedArea(row, area, currentSum)]
                      IN [rows |-> Append(rows, cut), nameNuts2 |-> name, read |-> i]
                 ELSE x04Loop(scada, area, minGHI, i + 1, currentSum + row.Area_m2,
                              name, Append(rows, row))
            ELSE x04Loop(scada, area, minGHI, i + 1, currentSum, name, rows)

x04GetRegions(scada, area, minGHI) == x04Loop(scada, area, minGHI, 1, 0, NoName, <<>>)

\* Mutant: the area is added, not subtracted.
ReconcileRow_added(scada, region) ==
    [k \in DOMAIN scada |->
        IF scada[k].Region = region.Region /\ scada[k].Threshold = region.Threshold
        THEN [scada[k] EXCEPT !.Area_m2 = @ + region.Area_m2]
        ELSE scada[k]]

\* Mutant: rows are matched by Region alone.
ReconcileRow_byRegion(scada, region) ==
    [k \in DOMAIN scada |->
        IF scada[k].Region = region.Region
        THEN [scada[k] EXCEPT !.Area_m2 = @ - region.Area_m2]
        ELSE scada[k]]

\* Mutant: an area never goes below zero.
ReconcileRow_floored(scada, region) ==
    [k \in DOMAIN scada |->
        IF scada[k].Region = region.Region /\ scada[k].Threshold = region.Threshold
        THEN [scada[k] EXCEPT !.Area_m2 = IF @ > region.Area_m2 THEN @ - region.Area_m2 ELSE 0]
        ELSE scada[k]]

\* Lines 244-248: every row of scadaPV with the (Region, Threshold) of
\* `region` loses region's area.
ReconcileRow(scada, region) ==
    [k \in DOMAIN scada |->
        IF scada[k].Region = region.Region /\ scada[k].Threshold = region.Threshold
        THEN [scada[k] EXCEPT !.Area_m2 = @ - region.Area_m2]
        ELSE scada[k]]

\* Mutant: the loop is never entered.
ReconcileFrom_skipped(scada, rows, j) == scada

\* Line 243: for region in rowsTH
RECURSIVE ReconcileFrom(_, _, _)
ReconcileFrom(scada, rows, j) ==
    IF j > Len(rows) THEN scada
    ELSE ReconcileFrom(ReconcileRow(scada, rows[j]), rows, j + 1)

NoSelection == [nameNuts2 |-> NoName, read |-> 0]

Init ==
    /\ pc = "s02"
    /\ scadaTH = <<>> /\ scadaPV = <<>>
    /\ areaTH = 0 /\ minGhiTH = 0 /\ rowsTH = <<>> /\ selTH = NoSelection
    /\ areaPV = 0 /\ minGhiPV = 0 /\ rowsPV = <<>> /\ selPV = NoSelection
    /\ error = None
    /\ spc = "idle" /\ payload = NoTriple /\ checked = NoTriple /\ parameters = NoTriple
    /\ cost = FZero /\ landUse = FZero /\ validated = FALSE
    /\ resolved = None /\ given = 0 /\ again = None
    /\ InitProcessIdle
    /\ InitValidatorIdle
    /\ InitCommandIdle
    /\ InitReconcileIdle

\* Both frames are read from the same file and sorted the same way.
s02LoadPreviousResult ==
    /\ pc = "s02"
    /\ \E cat \in Catalogues :
         /\ scadaTH' = cat
         /\ scadaPV' = cat
    /\ pc' = "s05"
    /\ UNCHANGED <<areaTH, minGhiTH, rowsTH, selTH, areaPV, minGhiPV, rowsPV, selPV, error,
                   sizingVars, processVars, validatorVars, commandVars, reconcileVars>>

\* dfTH is empty exactly when no row was selected; then nuts2TH and potDistTH
\* are never bound and the return statement raises.
s05CalculateThermalProduction ==
    /\ pc = "s05"
    /\ \E area \in Targets, minGHI \in Floors :
         LET sel == x04GetRegions(scadaTH, area, minGHI) IN
         /\ areaTH' = area
         /\ minGhiTH' = minGHI
         /\ rowsTH' = sel.rows
         /\ selTH' = [nameNuts2 |-> sel.nameNuts2, read |-> sel.read]
         /\ IF sel.rows # <<>>
            THEN /\ scadaPV' = ReconcileFrom(scadaPV, sel.rows, 1)
                 /\ pc' = "s06"
                 /\ error' = error
            ELSE /\ scadaPV' = scadaPV
                 /\ pc' = "failed"
                 /\ error' = Raised("UnboundLocalError")
    /\ UNCHANGED <<scadaTH, areaPV, minGhiPV, rowsPV, selPV, sizingVars, processVars, validatorVars, commandVars, reconcileVars>>

\* Mutant: the PV selection reads the catalogue as loaded (scadaTH), not the
\* frame s05 returned.
s06CalculatePVProduction_unreconciled ==
    /\ pc = "s06"
    /\ \E area \in Targets, minGHI \in Floors :
         LET sel == x04GetRegions(scadaTH, area, minGHI) IN
         /\ areaPV' = area
         /\ minGhiPV' = minGHI
         /\ rowsPV' = sel.rows
         /\ selPV' = [nameNuts2 |-> sel.nameNuts2, read |-> sel.read]
         /\ pc' = IF sel.rows # <<>> THEN "s07" ELSE "failed"
         /\ error' = IF sel.rows # <<>> THEN error ELSE Raised("AttributeError")
    /\ UNCHANGED <<scadaTH, scadaPV, areaTH, minGhiTH, rowsTH, selTH, sizingVars, processVars, validatorVars, commandVars, reconcileVars>>

\* x07GetDistribution is called whatever rowsPV holds; on an empty list its
\* frame has no datetime index and nuts2.index.strftime raises (line 728).
s06CalculatePVProduction ==
    /\ pc = "s06"
    /\ \E area \in Targets, minGHI \in Floors :
         LET sel == x04GetRegions(scadaPV, area, minGHI) IN
         /\ areaPV' = area
         /\ minGhiPV' = minGHI
         /\ rowsPV' = sel.rows
         /\ selPV' = [nameNuts2 |-> sel.nameNuts2, read |-> sel.read]
         /\ pc' = IF sel.rows # <<>> THEN "s07" ELSE "failed"
         /\ error' = IF sel.rows # <<>> THEN error ELSE Raised("AttributeError")
    /\ UNCHANGED <<scadaTH, scadaPV, areaTH, minGhiTH, rowsTH, selTH, sizingVars, processVars, validatorVars, commandVars, reconcileVars>>

Next ==
    \/ s02LoadPreviousResult
    \/ s05CalculateThermalProduction
    \/ s06CalculatePVProduction

Spec == Init /\ [][Next]_vars

(***************************************************************************)
(* One call of executeSolarEnergyModelProcess, from the rows the two       *)
(* selections returned.  Every query to the resource collaborator (PVGIS)  *)
(* is one step: it answers with an hourly series or fails.  Energies are   *)
(* whole numbers of MWh (Wh for the collaborator's P), areas are multiples *)
(* of 1e6 m2 and shares are whole percents, chosen so that every product   *)
(* and quotient of the code is exact.                                      *)
(***************************************************************************)
Hours == {1, 2}

\* Payload values of the run.
land_use_thermal == 50
land_use_pv == 100
efficiency_thermal == 50
efficiency_optical == 50
aperture == 50
TrackingValues == {0, 50, 100}
OpexValues == {<<10, 5>>, <<0, 3>>}

\* pvgis is limited in peakpower to 1.0e+08
Ceiling == 100000000

\* What the collaborator answers: data['dni'] and df['P'] over the hours.
DniSeries == {<<2, 0>>, <<-2, 4>>}
PSeries == {<<2000000, 0>>, <<-2000000, 4000000>>}

\* The rows the selections hand to the production steps.
ProcessAreas == {1000000, 2000000000}
SubRegions == {<<"E", "1">>, <<"E", "1", "a">>, <<"E", "1", "b">>}
ThermalTarget == 8000000
ThermalSelections ==
    {<<>>,
     <<Row(<<"E", "1", "a">>, 2, 1000000, 2)>>,
     <<Row(<<"E", "1", "a">>, 2, 1000000, 2), Row(<<"E", "1", "b">>, 2, 1000000, 2)>>,
     <<Row(<<"E", "1", "a">>, 2, 1000000, 2), Row(<<"E", "1", "b">>, 2, 3000000, 2)>>}
PVSelections ==
    {rows \in UNION {[1..n -> {Row(r, 2, a, 2) : r \in SubRegions, a \in ProcessAreas}] :
                        n \in {0, 1, 2}} : UniqueKeys(rows)}

\* x * (p / 100)
Pct(x, p) == (x * p) \div 100

\* radiation * aperture * effTH * effOp / 1.0e+06, hour by hour
x02ThermalModel(radiation, effTH, effOp, apertureArea) ==
    [h \in DOMAIN radiation |->
        Pct(Pct(radiation[h] * apertureArea, effTH), effOp) \div 1000000]

\* (region['Area_m2'] * landUse) / 1.0e+06
PeakPower(region, lu) == (region.Area_m2 \div 1000000) * lu

\* Line 667: potMW as rebound before the query.
SentPower(potMW) == IF potMW * 1000 > Ceiling THEN potMW \div 1000 ELSE potMW

\* Line 668: evaluated on the rebound potMW.
ScaleFactor(potMW) == IF potMW * 1000 > Ceiling THEN 1000 ELSE 1

Query(pass, i, ok, peakpower, factor, computed) ==
    [pass |-> pass, region |-> i, ok |-> ok,
     peakpower |-> peakpower, factor |-> factor, computed |-> computed]

InitProcess ==
    /\ InitValidatorIdle
    /\ InitCommandIdle
    /\ InitReconcileIdle
    /\ ppc = "x05"
    /\ rowsTH \in ThermalSelections
    /\ rowsPV \in PVSelections
    /\ areaTH = ThermalTarget
    /\ queries = <<>>
    /\ prodTH = <<>> /\ prodPVTracking = <<>> /\ prodPVFixed = <<>>
    /\ dniTH = <<>>
    /\ pvPower = [i \in DOMAIN rowsPV |-> None]
    /\ tracking = 0 /\ prodPV = <<>>
    /\ output = None /\ resultFiltered = None /\ result = Pending
    /\ error = None
    /\ pc = "idle" /\ scadaTH = <<>> /\ scadaPV = <<>>
    /\ minGhiTH = 0 /\ selTH = None
    /\ areaPV = 0 /\ minGhiPV = 0 /\ selPV = None
    /\ spc = "idle" /\ payload = NoTriple /\ checked = NoTriple /\ parameters = NoTriple
    /\ cost = FZero /\ landUse = FZero /\ validated = FALSE
    /\ resolved = None /\ given = 0 /\ again = None

processFrame == <<pc, scadaTH, scadaPV, areaTH, minGhiTH, rowsTH, selTH,
                  areaPV, minGhiPV, rowsPV, selPV, sizingVars, validatorVars, commandVars, reconcileVars>>

\* Mutant: the aperture is taken on the region's own area.
x05GetThermalProduction_ownArea ==
    /\ ppc = "x05"
    /\ Len(prodTH) < Len(rowsTH)
    /\ LET i == Len(prodTH) + 1 IN
       \/ \E dni \in DniSeries :
            /\ dniTH' = Append(dniTH, dni)
            /\ prodTH' = Append(prodTH,
                   x02ThermalModel(dni, efficiency_thermal, efficiency_optical,
                                   Pct(rowsTH[i].Area_m2, aperture)))
            /\ queries' = Append(queries, Query("thermal", i, TRUE, 0, 1, 0))
            /\ UNCHANGED <<ppc, error>>
       \/ /\ queries' = Append(queries, Query("thermal", i, FALSE, 0, 1, 0))
          /\ error' = Raised("Exception")
          /\ ppc' = "except"
          /\ UNCHANGED <<prodTH, dniTH>>
    /\ UNCHANGED <<prodPVTracking, prodPVFixed, tracking, prodPV, output, result,
                   resultFiltered, pvPower, processFrame>>

\* One iteration of the loop of x05GetThermalProduction: the query for the
\* next region and, if it answers, the region's production.
x05GetThermalProduction ==
    /\ ppc = "x05"
    /\ Len(prodTH) < Len(rowsTH)
    /\ LET i == Len(prodTH) + 1 IN
       \/ \E dni \in DniSeries :
            /\ dniTH' = Append(dniTH, dni)
            /\ prodTH' = Append(prodTH,
                   x02ThermalModel(dni, efficiency_thermal, efficiency_optical,
                                   Pct(areaTH, aperture)))
            /\ queries' = Append(queries, Query("thermal", i, TRUE, 0, 1, 0))
            /\ UNCHANGED <<ppc, error>>
       \/ /\ queries' = Append(queries, Query("thermal", i, FALSE, 0, 1, 0))
          /\ error' = Raised("Exception")
          /\ ppc' = "except"
          /\ UNCHANGED <<prodTH, dniTH>>
    /\ UNCHANGED <<prodPVTracking, prodPVFixed, tracking, prodPV, output, result,
                   resultFiltered, pvPower, processFrame>>

\* The rest of s05: with no production (dfTH.empty) nuts2TH and potDistTH are
\* never bound and the return statement raises.
s05ReturnThermal ==
    /\ ppc = "x05"
    /\ Len(prodTH) = Len(rowsTH)
    /\ IF rowsTH # <<>>
       THEN ppc' = "x06" /\ error' = error
       ELSE ppc' = "except" /\ error' = Raised("UnboundLocalError")
    /\ UNCHANGED <<queries, prodTH, prodPVTracking, prodPVFixed, tracking, prodPV, output,
                   result, resultFiltered, dniTH, pvPower, processFrame>>

\* Mutant: a failed query is swallowed; the region counts for nothing and
\* the loop goes on.
x06GetPVProduction_skipFailed ==
    /\ ppc = "x06"
    /\ Len(prodPVFixed) < Len(rowsPV)
    /\ LET first  == Len(prodPVTracking) < Len(rowsPV)
           i      == IF first THEN Len(prodPVTracking) + 1 ELSE Len(prodPVFixed) + 1
           potMW  == PeakPower(rowsPV[i], land_use_pv)
           sent   == SentPower(potMW)
           factor == ScaleFactor(sent)
           pass   == IF first THEN "tracking" ELSE "fixed"
       IN
       \E P \in PSeries, ok \in BOOLEAN :
            LET prod == [h \in DOMAIN P |-> IF ok THEN (P[h] * factor) \div 1000000 ELSE 0] IN
            /\ prodPVTracking' = IF first THEN Append(prodPVTracking, prod) ELSE prodPVTracking
            /\ prodPVFixed' = IF first THEN prodPVFixed ELSE Append(prodPVFixed, prod)
            /\ pvPower' = [pvPower EXCEPT ![i] = prod]
            /\ queries' = Append(queries,
                                 Query(pass, i, ok, sent * 1000, factor, potMW * 1000))
            /\ UNCHANGED <<ppc, error>>
    /\ UNCHANGED <<prodTH, tracking, prodPV, output, result, resultFiltered, dniTH, processFrame>>

\* One iteration of the loop of x06GetPVProduction; s06 runs the loop twice
\* over rowsPV, first with tracking = 1, then with tracking = 0.
x06GetPVProduction ==
    /\ ppc = "x06"
    /\ Len(prodPVFixed) < Len(rowsPV)
    /\ LET first  == Len(prodPVTracking) < Len(rowsPV)
           i      == IF first THEN Len(prodPVTracking) + 1 ELSE Len(prodPVFixed) + 1
           potMW  == PeakPower(rowsPV[i], land_use_pv)
           sent   == SentPower(potMW)
           factor == ScaleFactor(sent)
           pass   == IF first THEN "tracking" ELSE "fixed"
       IN
       \/ \E P \in PSeries :
            LET prod == [h \in DOMAIN P |-> (P[h] * factor) \div 1000000] IN
            /\ prodPVTracking' = IF first THEN Append(prodPVTracking, prod) ELSE prodPVTracking
            /\ prodPVFixed' = IF first THEN prodPVFixed ELSE Append(prodPVFixed, prod)
            /\ pvPower' = [pvPower EXCEPT ![i] = prod]
            /\ queries' = Append(queries,
                                 Query(pass, i, TRUE, sent * 1000, factor, potMW * 1000))
            /\ UNCHANGED <<ppc, error>>
       \/ /\ queries' = Append(queries,
                               Query(pass, i, FALSE, sent * 1000, factor, potMW * 1000))
          /\ error' = Raised("Exception")
          /\ ppc' = "except"
          /\ UNCHANGED <<prodPVTracking, prodPVFixed, pvPower>>
    /\ UNCHANGED <<prodTH, tracking, prodPV, output, result, resultFiltered, dniTH, processFrame>>

\* Mutant: the two weights are exchanged.
Blend_exchanged(tracked, fixed, t) ==
    [i \in 1..(IF Len(tracked) <= Len(fixed) THEN Len(tracked) ELSE Len(fixed)) |->
        [h \in DOMAIN tracked[i] |-> 0 + Pct(tracked[i][h], 100 - t) + Pct(fixed[i][h], t)]]

\* list(map(sum, zip(map(lambda x: x * tracking, prodPVTracking),
\*                   map(lambda x: x * (1 - tracking), prodPVFixed))))
Blend(tracked, fixed, t) ==
    [i \in 1..(IF Len(tracked) <= Len(fixed) THEN Len(tracked) ELSE Len(fixed)) |->
        [h \in DOMAIN tracked[i] |-> 0 + Pct(tracked[i][h], t) + Pct(fixed[i][h], 100 - t)]]

\* The rest of s06: the blend, and x07GetDistribution, which raises on an
\* empty list of rows (nuts2.index.strftime, line 728).
s06BlendProduction ==
    /\ ppc = "x06"
    /\ Len(prodPVFixed) = Len(rowsPV)
    /\ \E t \in TrackingValues :
         /\ tracking' = t
         /\ prodPV' = Blend(prodPVTracking, prodPVFixed, t)
    /\ IF rowsPV # <<>>
       THEN ppc' = "s07" /\ error' = error
       ELSE ppc' = "except" /\ error' = Raised("AttributeError")
    /\ UNCHANGED <<queries, prodTH, prodPVTracking, prodPVFixed, output, result,
                   resultFiltered, dniTH, pvPower, processFrame>>

\* x07GetDistribution's `pots`: by Region, the sum of the rows'
\* power_installed(kW), which x05 and x06 set to Area_m2 * landUse / 1e6.
x07Pots(rows, lu) ==
    LET RECURSIVE Sum(_)
        Sum(rs) == IF rs = <<>> THEN 0 ELSE PeakPower(rs[1], lu) + Sum(Tail(rs))
    IN [r \in {rows[i].Region : i \in DOMAIN rows} |->
           Sum(SelectSeq(rows, LAMBDA row : row.Region = r))]

Thermal == <<"t", "h", "e", "r", "m", "a", "l">>
Pv == <<"p", "v">>
Opex == <<"o", "p", "e", "x">>

\* f'{k}_thermal', f'{k}_pv'
Tagged(k, tag) == k \o <<"_">> \o tag

\* word in dKey
Contains(dKey, word) ==
    \E i \in 1..(Len(dKey) - Len(word) + 1) : SubSeq(dKey, i, i + Len(word) - 1) = word

\* Lines 440-443: the capacities of both technologies under tagged keys.
CombinedDict(potTH, potPV, emptyTH) ==
    LET keysTH == IF emptyTH THEN {} ELSE {Tagged(r, Thermal) : r \in DOMAIN potTH}
        keysPV == {Tagged(r, Pv) : r \in DOMAIN potPV}
    IN [k \in keysTH \cup keysPV |->
           IF k \in keysTH THEN potTH[SubSeq(k, 1, Len(k) - Len(Thermal) - 1)]
           ELSE potPV[SubSeq(k, 1, Len(k) - Len(Pv) - 1)]]

RECURSIVE SumValues(_, _)
SumValues(dictData, keys) ==
    IF keys = {} THEN 0
    ELSE LET k == CHOOSE x \in keys : TRUE
         IN dictData[k] + SumValues(dictData, keys \ {k})

\* Mutant: the two rates are exchanged.
x08CalculateOpex_exchanged(dictData, opexTH, opexPV) ==
    LET th == {k \in DOMAIN dictData : Contains(k, Thermal)}
        pv == {k \in DOMAIN dictData \ th : Contains(k, Pv)}
    IN <<SumValues(dictData, th) * opexPV, SumValues(dictData, pv) * opexTH>>

\* Lines 747-754: `if 'thermal' in dKey ... elif 'pv' in dKey`.
x08CalculateOpex(dictData, opexTH, opexPV) ==
    LET th == {k \in DOMAIN dictData : Contains(k, Thermal)}
        pv == {k \in DOMAIN dictData \ th : Contains(k, Pv)}
    IN <<SumValues(dictData, th) * opexTH, SumValues(dictData, pv) * opexPV>>

\* pd.DataFrame(prod).sum(axis=0) at hour h
SumAt(prod, h) ==
    LET RECURSIVE Sum(_)
        Sum(ps) == IF ps = <<>> THEN 0 ELSE ps[1][h] + Sum(Tail(ps))
    IN Sum(prod)

Pthermal == <<"P", "t", "h", "e", "r", "m", "a", "l">>
Ppv == <<"P", "p", "v">>

\* The values of a list in the order of their first occurrence.
RECURSIVE Distinct(_)
Distinct(seq) ==
    IF seq = <<>> THEN <<>>
    ELSE LET front == Distinct(SubSeq(seq, 1, Len(seq) - 1))
             last  == seq[Len(seq)]
         IN IF \E i \in DOMAIN front : front[i] = last THEN front ELSE Append(front, last)

\* x07GetDistribution's `nuts2`: one column per Region of the rows, in the
\* order the Regions first occur, holding the hourly sum of the label series
\* (thermal_power or pv_power) of the rows of that Region.
x07Nuts2(rows, label) ==
    LET res == Distinct([i \in DOMAIN rows |-> rows[i].Region])
        RECURSIVE Sum(_, _, _)
        Sum(r, h, n) ==
            IF n = 0 THEN 0
            ELSE (IF rows[n].Region = r THEN label[n][h] ELSE 0) + Sum(r, h, n - 1)
    IN [j \in DOMAIN res |->
           [name |-> res[j], data |-> [h \in Hours |-> Sum(res[j], h, Len(rows))]]]

\* DataFrame.add_suffix('_' + tag)
AddSuffix(frame, tag) ==
    [j \in DOMAIN frame |-> [frame[j] EXCEPT !.name = Tagged(@, tag)]]

\* s08CalculateDistributedProduction with thermal production: the thermal
\* columns, then the PV columns.
s08CalculateDistributedProduction(nuts2TH, nuts2PV) ==
    AddSuffix(nuts2TH, Pthermal) \o AddSuffix(nuts2PV, Ppv)

\* str.rsplit('_'): the pieces of s between its underscores.
RECURSIVE Rsplit(_)
Rsplit(s) ==
    IF \A i \in DOMAIN s : s[i] # "_" THEN <<s>>
    ELSE LET i == CHOOSE k \in DOMAIN s :
                      s[k] = "_" /\ \A j \in (k + 1)..Len(s) : s[j] # "_"
         IN Append(Rsplit(SubSeq(s, 1, i - 1)), SubSeq(s, i + 1, Len(s)))

\* str.startswith
StartsWith(x, prefix) ==
    Len(prefix) <= Len(x) /\ SubSeq(x, 1, Len(prefix)) = prefix

\* Line 434: nuts3Cols = [x for x in nuts2Dist if (x.startswith(namesNuts3[i]))]
Nuts3Cols(nuts2Dist, name) ==
    SelectSeq(nuts2Dist, LAMBDA c : StartsWith(c.name, name))

\* Lines 430-437: the drill-down tables.  dfNuts3[newNuts3Cols] =
\* nuts2Dist[nuts3Cols] assigns the columns one by one under their new names,
\* so of two columns with the same new name the later one stays.
DrillDown(nuts2Dist) ==
    LET namesNuts3 == Distinct([c \in DOMAIN nuts2Dist |-> Rsplit(nuts2Dist[c].name)[1]])
    IN [i \in DOMAIN namesNuts3 |->
          LET nuts3Cols    == Nuts3Cols(nuts2Dist, namesNuts3[i])
              newNuts3Cols == [k \in DOMAIN nuts3Cols |-> Rsplit(nuts3Cols[k].name)[2]]
              lastOf(n)    == CHOOSE k \in DOMAIN nuts3Cols :
                                  /\ newNuts3Cols[k] = n
                                  /\ \A j \in (k + 1)..Len(nuts3Cols) : newNuts3Cols[j] # n
          IN [nuts3 |-> namesNuts3[i],
              columns |-> [n \in {newNuts3Cols[k] : k \in DOMAIN nuts3Cols} |->
                              nuts3Cols[lastOf(n)]]]]

\* s07, s08 and s09 on a run with thermal production: the hourly table with
\* the columns Pthermal and Ppv, the distribution by Region of both
\* technologies (x07GetDistribution reads the rows' thermal_power and
\* pv_power), the drill-down tables, and the dictionary of capacities with
\* the two OPEX totals added to it.
s09SaveResults ==
    /\ ppc = "s07"
    /\ \E rates \in OpexValues :
         LET nuts2TH == x07Nuts2(rowsTH, prodTH)
             nuts2PV == x07Nuts2(rowsPV, pvPower)
             nuts2Dist == s08CalculateDistributedProduction(nuts2TH, nuts2PV)
             combinedDict == CombinedDict(x07Pots(rowsTH, land_use_thermal),
                                          x07Pots(rowsPV, land_use_pv), prodTH = <<>>)
             opex == x08CalculateOpex(combinedDict, rates[1], rates[2])
             keyTH == Tagged(Opex, Thermal)
             keyPV == Tagged(Opex, Pv)
         IN output' =
               [table |-> [h \in Hours |-> [Pthermal |-> SumAt(prodTH, h),
                                            Ppv |-> SumAt(prodPV, h)]],
                nuts2TH |-> nuts2TH,
                nuts2PV |-> nuts2PV,
                nuts2Dist |-> nuts2Dist,
                drill |-> DrillDown(nuts2Dist),
                opexTH |-> rates[1],
                opexPV |-> rates[2],
                dict |-> [k \in DOMAIN combinedDict \cup {keyTH, keyPV} |->
                             IF k = keyTH THEN opex[1]
                             ELSE IF k = keyPV THEN opex[2]
                             ELSE combinedDict[k]]]
    /\ ppc' = "s09"
    /\ UNCHANGED <<queries, prodTH, prodPVTracking, prodPVFixed, tracking, prodPV, result,
                   error, resultFiltered, dniTH, pvPower, processFrame>>

\* result[(time >= start) & (time <= end)] as a dictionary of lists
Filtered(table, start, end) ==
    LET n == IF end >= start THEN end - start + 1 ELSE 0 IN
    [c \in {"time(UTC)", "Pthermal", "Ppv"} |->
        [j \in 1..n |->
            LET h == start + j - 1 IN
            IF c = "time(UTC)" THEN h
            ELSE IF c = "Pthermal" THEN table[h].Pthermal ELSE table[h].Ppv]]

\* Mutant: only the PV column is looked at.
validateProcessOutput_onlyPV(frame) ==
    \E j \in DOMAIN frame["Ppv"] : frame["Ppv"][j] < 0

\* (numericColumns < 0).any().any(); time(UTC) is not a numeric column.
validateProcessOutput(frame) ==
    \E c \in {"Pthermal", "Ppv"} :
        \E j \in DOMAIN frame[c] : frame[c][j] < 0

\* executeSolarEnergyModelProcess, lines 124-141, once executeModel returned.
filterOutput ==
    /\ ppc = "s09"
    /\ \E start \in Hours, end \in Hours :
         /\ resultFiltered' = Filtered(output.table, start, end)
         /\ IF validateProcessOutput(resultFiltered')
            THEN /\ error' = Raised("Exception")
                 /\ ppc' = "except"
                 /\ result' = result
            ELSE /\ result' = resultFiltered'
                 /\ ppc' = "returned"
                 /\ error' = error
    /\ UNCHANGED <<queries, prodTH, prodPVTracking, prodPVFixed, tracking, prodPV, output,
                   dniTH, pvPower, processFrame>>

\* Mutant: the exception leaves the function.
exceptException_reraised ==
    /\ ppc = "except"
    /\ result' = error
    /\ ppc' = "returned"
    /\ UNCHANGED <<queries, prodTH, prodPVTracking, prodPVFixed, tracking, prodPV, output,
                   error, resultFiltered, dniTH, pvPower, processFrame>>

\* Lines 142-144: `except Exception` prints and falls off the end (None).
exceptException ==
    /\ ppc = "except"
    /\ result' = None
    /\ ppc' = "returned"
    /\ UNCHANGED <<queries, prodTH, prodPVTracking, prodPVFixed, tracking, prodPV, output,
                   error, resultFiltered, dniTH, pvPower, processFrame>>

NextProcess ==
    \/ x05GetThermalProduction
    \/ s05ReturnThermal
    \/ x06GetPVProduction
    \/ s06BlendProduction
    \/ s09SaveResults
    \/ filterOutput
    \/ exceptException

SpecProcess == InitProcess /\ [][NextProcess]_vars

(***************************************************************************)
(* main: validateProcessPayload on the whole payload, then the model.      *)
(* A payload maps every property the validator looks at to its value, to   *)
(* None (JSON null) or to Absent (the key is not in the dictionary).       *)
(* Numbers are whole: the six sizing properties are counted in thousands   *)
(* and system_cost_pv in tenths, so that every limit of validator.py is a  *)
(* whole number inside TLC's integers.                                     *)
(***************************************************************************)
Absent == [absent |-> TRUE]
Num(n) == [num |-> n]
Str(s) == [str |-> s]

\* REGIONS = 'ES41'
REGION_LIST == {<<"E", "S", "4", "1">>}

\* str.strip() and str.upper() on the characters the payloads use.
RECURSIVE Strip(_)
Strip(s) ==
    IF s = <<>> THEN s
    ELSE IF Head(s) = " " THEN Strip(Tail(s))
    ELSE IF s[Len(s)] = " " THEN Strip(SubSeq(s, 1, Len(s) - 1))
    ELSE s

Upper(s) ==
    [i \in DOMAIN s |-> IF s[i] = "e" THEN "E" ELSE IF s[i] = "s" THEN "S" ELSE s[i]]

\* Mutant: the limits themselves are refused.
validateLimits_exclusive(value, limitDown, limitUp) == limitDown < value /\ value < limitUp

\* True if limitDown <= value <= limitUp else False
validateLimits(value, limitDown, limitUp) == limitDown <= value /\ value <= limitUp

\* One block of validateProcessPayload: the property, how an invalid value
\* is treated ("default": replaced; "raise": exception), whether null is
\* accepted, the limits and the default.
Rule(name, kind, nullable, lo, hi, default) ==
    [name |-> name, kind |-> kind, nullable |-> nullable,
     lo |-> lo, hi |-> hi, default |-> default]

Rules == <<
    Rule("nutsid",              "region",  FALSE, 0, 0, 0),
    Rule("slope_angle",         "default", FALSE, 0, 360, 0),
    Rule("area_total_thermal",  "default", TRUE,  0, 10000000, 0),
    Rule("power_thermal",       "default", TRUE,  0, 1000000000, 0),
    Rule("capex_thermal",       "default", TRUE,  0, 500000000, 0),
    Rule("area_total_pv",       "default", TRUE,  0, 10000000, 0),
    Rule("power_pv",            "default", TRUE,  0, 1000000000, 0),
    Rule("capex_pv",            "default", TRUE,  0, 500000000, 0),
    Rule("system_cost_thermal", "default", FALSE, 1, 10, 0),
    Rule("system_cost_pv",      "default", FALSE, 2, 10, 5),
    Rule("loss",                "default", FALSE, 8, 20, 14),
    Rule("efficiency_thermal",  "default", FALSE, 25, 65, 45),
    Rule("efficiency_optical",  "default", FALSE, 45, 85, 65),
    Rule("aperture",            "default", FALSE, 25, 75, 50),
    Rule("tilt",                "default", FALSE, 0, 90, 30),
    Rule("azimuth",             "default", FALSE, 0, 360, 180),
    Rule("tracking_percentage", "default", FALSE, 0, 100, 60),
    Rule("opex_thermal",        "default", FALSE, 0, 40000, 20000),
    Rule("opex_pv",             "default", FALSE, 0, 30000, 15000),
    Rule("min_ghi_thermal",     "default", FALSE, 1500, 2500, 2000),
    Rule("min_ghi_pv",          "default", FALSE, 500, 2000, 1000),
    Rule("land_use_thermal",    "default", FALSE, 25, 100, 50),
    Rule("land_use_pv",         "default", FALSE, 50, 200, 100),
    Rule("convert_coord",       "flag",    FALSE, 0, 1, 0),
    Rule("pvgis_year",          "year",    FALSE, 1900, 2020, 0) >>

Properties == {Rules[i].name : i \in DOMAIN Rules}

\* Mutant: an out-of-range value is left in the payload.
Substituted_kept(p, r) == p

\* The value of property r after its block: the default if it was outside
\* the limits (a null of a nullable property is left alone).
Substituted(p, r) ==
    IF p[r.name] # None /\ ~validateLimits(p[r.name].num, r.lo, r.hi)
    THEN [p EXCEPT ![r.name] = Num(r.default)]
    ELSE p

\* Lines 162-169 and 202-208: three nulls become area 0.
Combined(p, area, power, capex) ==
    IF p[area] = None /\ p[power] = None /\ p[capex] = None
    THEN [p EXCEPT ![area] = Num(0), ![power] = None, ![capex] = None]
    ELSE p

\* validateProcessPayload from block i on: the payload it returns, or the
\* exception it raises.
RECURSIVE validateFrom(_, _)
validateFrom(p, i) ==
    IF i > Len(Rules) THEN p
    ELSE LET r == Rules[i]
             v == p[r.name]
         IN IF v = Absent THEN Raised("Exception")
            ELSE IF v = None /\ ~r.nullable THEN Raised("Exception")
            ELSE IF r.kind = "region"
                 THEN IF Upper(Strip(v.str)) \notin REGION_LIST
                      THEN Raised("Exception")
                      ELSE validateFrom(p, i + 1)
            ELSE IF r.kind = "flag"
                 THEN IF v.num \notin {0, 1}
                      THEN Raised("Exception")
                      ELSE validateFrom(p, i + 1)
            ELSE IF r.kind = "year"
                 THEN IF ~validateLimits(v.num, r.lo, r.hi)
                      THEN Raised("Exception")
                      ELSE validateFrom(p, i + 1)
            ELSE LET q == Substituted(p, r) IN
                 IF r.name = "capex_thermal"
                 THEN validateFrom(Combined(q, "area_total_thermal", "power_thermal",
                                            "capex_thermal"), i + 1)
                 ELSE IF r.name = "capex_pv"
                 THEN validateFrom(Combined(q, "area_total_pv", "power_pv", "capex_pv"),
                                   i + 1)
                 ELSE validateFrom(q, i + 1)

\* Lines 106-108, then the blocks in order.
validatePayload(p) ==
    IF \A k \in DOMAIN p : p[k] = Absent THEN Raised("Exception")
    ELSE validateFrom(p, 1)

\* A payload the validator accepts as it is.
ValidPayload ==
    [k \in Properties |->
        IF k = "nutsid" THEN Str(<<"E", "S", "4", "1">>)
        ELSE IF k = "pvgis_year" THEN Num(2019)
        ELSE IF k = "convert_coord" THEN Num(0)
        ELSE LET r == Rules[CHOOSE i \in DOMAIN Rules : Rules[i].name = k]
             IN Num(IF r.default >= r.lo THEN r.default ELSE r.lo)]

\* The values a payload may hold for property k.
ValuesOf(k) ==
    LET r == Rules[CHOOSE i \in DOMAIN Rules : Rules[i].name = k] IN
    {Absent, None} \cup
    (IF r.kind = "region"
     THEN {Str(<<" ", "e", "s", "4", "1", " ">>), Str(<<"E", "S", "7", "0">>)}
     ELSE IF r.kind = "flag" THEN {Num(1), Num(2), Num(-10)}
     ELSE {Num(r.lo - 1), Num(r.lo), Num(r.hi), Num(r.hi + 1), Num(-10)})

\* The payloads of the model: the valid payload with up to two properties
\* changed.
Payloads ==
    {[ValidPayload EXCEPT ![k1] = v1, ![k2] = v2] :
        <<k1, v1, k2, v2>> \in
            UNION {{<<a, x, b, y>> : x \in ValuesOf(a), y \in ValuesOf(b)} :
                      <<a, b>> \in Properties \X Properties}}
    \cup {ValidPayload}

InitValidator ==
    /\ processPayload \in Payloads
    /\ outcome = Pending
    /\ started = FALSE
    /\ outcomeAgain = Pending
    /\ InitCommandIdle
    /\ InitReconcileIdle
    /\ InitProcessIdle
    /\ InitRunIdle
    /\ spc = "idle" /\ payload = NoTriple /\ checked = NoTriple /\ parameters = NoTriple
    /\ cost = FZero /\ landUse = FZero /\ validated = FALSE
    /\ resolved = None /\ given = 0 /\ again = None

\* main, line 172.
mainValidate ==
    /\ outcome = Pending
    /\ outcome' = validatePayload(processPayload)
    /\ UNCHANGED <<processPayload, started, outcomeAgain, sizingVars, runVars, processVars,
                   commandVars, reconcileVars>>

\* main, lines 176-179: reached only if line 172 did not raise.
mainExecute ==
    /\ outcome # Pending /\ ~IsRaised(outcome)
    /\ ~started
    /\ started' = TRUE
    /\ UNCHANGED <<processPayload, outcome, outcomeAgain, sizingVars, runVars, processVars,
                   commandVars, reconcileVars>>

\* validateProcessPayload once more, on what it returned.
validateAgain ==
    /\ outcome # Pending /\ ~IsRaised(outcome)
    /\ outcomeAgain = Pending
    /\ outcomeAgain' = validatePayload(outcome)
    /\ UNCHANGED <<processPayload, outcome, started, sizingVars, runVars, processVars,
                   commandVars, reconcileVars>>

NextValidator ==
    \/ mainValidate
    \/ mainExecute
    \/ validateAgain

SpecValidator == InitValidator /\ [][NextValidator]_vars

(***************************************************************************)
(* main: validateCommandLineParameters on sys.argv.  A string is the       *)
(* sequence of its characters, so that strptime is a parser and the        *)
(* comparison of the two datetimes is the comparison of two strings.       *)
(***************************************************************************)
Digits == {"0", "1", "2", "3", "4", "5", "6", "7", "8", "9"}

\* ord() of the characters the parameters are written with.
Ord(c) ==
    CASE c = " " -> 32
      [] c = "-" -> 45
      [] c = "0" -> 48 [] c = "1" -> 49 [] c = "2" -> 50 [] c = "3" -> 51
      [] c = "4" -> 52 [] c = "5" -> 53 [] c = "6" -> 54 [] c = "7" -> 55
      [] c = "8" -> 56 [] c = "9" -> 57
      [] c = ":" -> 58
      [] c = "T" -> 84
      [] c = "i" -> 105
      [] c = "w" -> 119

\* int() of a string of digits.
RECURSIVE Value(_)
Value(t) ==
    IF t = <<>> THEN 0 ELSE 10 * Value(SubSeq(t, 1, Len(t) - 1)) + (Ord(t[Len(t)]) - 48)

\* The number of digits of s from position i on, up to the first other
\* character.
RECURSIVE DigitRun(_, _)
DigitRun(s, i) ==
    IF i > Len(s) \/ s[i] \notin Digits THEN 0 ELSE 1 + DigitRun(s, i + 1)

\* The digits of s at position i, and the position after them.
DigitsAt(s, i) ==
    [text |-> SubSeq(s, i, i + DigitRun(s, i) - 1), next |-> i + DigitRun(s, i)]

Literal(s, i, c) == i <= Len(s) /\ s[i] = c

\* A directive of one or two digits with a value between lo and hi (%m, %d,
\* %H, %M, %S match a single digit as well as two).
Directive(t, lo, hi) == Len(t) \in {1, 2} /\ lo <= Value(t) /\ Value(t) <= hi

IsLeap(y) == (y % 4 = 0 /\ y % 100 # 0) \/ y % 400 = 0

DaysIn(y, m) ==
    IF m = 2 THEN (IF IsLeap(y) THEN 29 ELSE 28)
    ELSE IF m \in {4, 6, 9, 11} THEN 30 ELSE 31

\* datetime.strptime(s, '%Y-%m-%dT%H:%M:%S'): the datetime, or ValueError.
strptime(s) ==
    LET Y == DigitsAt(s, 1)
        m == DigitsAt(s, Y.next + 1)
        d == DigitsAt(s, m.next + 1)
        H == DigitsAt(s, d.next + 1)
        M == DigitsAt(s, H.next + 1)
        S == DigitsAt(s, M.next + 1)
    IN IF /\ Len(Y.text) = 4
          /\ Literal(s, Y.next, "-") /\ Directive(m.text, 1, 12)
          /\ Literal(s, m.next, "-") /\ Directive(d.text, 1, 31)
          /\ Literal(s, d.next, "T") /\ Directive(H.text, 0, 23)
          /\ Literal(s, H.next, ":") /\ Directive(M.text, 0, 59)
          /\ Literal(s, M.next, ":") /\ Directive(S.text, 0, 59)
          /\ S.next = Len(s) + 1
          /\ Value(d.text) <= DaysIn(Value(Y.text), Value(m.text))
       THEN <<Value(Y.text), Value(m.text), Value(d.text),
              Value(H.text), Value(M.text), Value(S.text)>>
       ELSE Raised("ValueError")

\* a <= b on Python strings: by code point, a prefix before its extensions.
StrLessEq(a, b) ==
    \/ a = b
    \/ \E i \in 1..(Len(b)) :
        /\ i <= Len(a) + 1
        /\ \A j \in 1..(i - 1) : a[j] = b[j]
        /\ (i = Len(a) + 1 \/ Ord(a[i]) < Ord(b[i]))

\* The paths os.path.exists finds.
ExistingPaths == {<<"i">>}

\* validateCommandLineParameters: None, or the exception it raises.
validateCommandLineParameters(params) ==
    IF Len(params) # 4 THEN Raised("Exception")
    ELSE IF Strip(params[2]) \notin ExistingPaths THEN Raised("Exception")
    ELSE IF IsRaised(strptime(params[3])) THEN Raised("Exception")
    ELSE IF IsRaised(strptime(params[4])) THEN Raised("Exception")
    ELSE IF StrLessEq(params[4], params[3]) THEN Raised("Exception")
    ELSE None

\* The datetimes of the model, as written on the command line.
Stamp(m, d, sep, H) ==
    <<"2", "0", "1", "9", "-">> \o m \o <<"-">> \o d \o sep \o H
        \o <<":", "0", "0", ":", "0", "0">>

Stamps ==
    {Stamp(m, d, sep, H) :
        m \in {<<"0", "3">>, <<"0", "4">>, <<"9">>, <<"1", "0">>, <<"0", "2">>},
        d \in {<<"0", "1">>, <<"0", "2">>, <<"3", "0">>},
        sep \in {<<"T">>, <<" ">>},
        H \in {<<"1", "3">>, <<"9">>}}
    \cup {<<>>}

Paths == {<<"i">>, <<" ", "i", " ">>, <<"w">>, <<>>}

\* The command lines of the model: the program name, then up to four
\* parameters.
CommandLines ==
    {<<<<"i">>>>}
    \cup {<<<<"i">>, f, a>> : f \in Paths, a \in {Stamp(<<"0", "3">>, <<"0", "1">>, <<"T">>, <<"1", "3">>)}}
    \cup {<<<<"i">>, f, a, b>> : f \in Paths, a \in Stamps, b \in Stamps}
    \cup {<<<<"i">>, f, a, b, <<>>>> : f \in {<<"i">>},
             a \in {Stamp(<<"0", "3">>, <<"0", "1">>, <<"T">>, <<"1", "3">>)},
             b \in {Stamp(<<"0", "3">>, <<"0", "2">>, <<"T">>, <<"1", "3">>)}}

InitCommandLine ==
    /\ argv \in CommandLines
    /\ argvOutcome = Pending
    /\ InitValidatorIdle
    /\ InitReconcileIdle
    /\ InitProcessIdle
    /\ InitRunIdle
    /\ spc = "idle" /\ payload = NoTriple /\ checked = NoTriple /\ parameters = NoTriple
    /\ cost = FZero /\ landUse = FZero /\ validated = FALSE
    /\ resolved = None /\ given = 0 /\ again = None

\* main, line 164.
mainValidateCommandLine ==
    /\ argvOutcome = Pending
    /\ argvOutcome' = validateCommandLineParameters(argv)
    /\ UNCHANGED <<argv, sizingVars, runVars, processVars, validatorVars, reconcileVars>>

NextCommandLine == mainValidateCommandLine

SpecCommandLine == InitCommandLine /\ [][NextCommandLine]_vars

(***************************************************************************)
(* The reconciliation loop of s05CalculateThermalProduction (lines         *)
(* 243-248) on its own: a PV catalogue and two thermal allocations, each   *)
(* of which may be subtracted from it, up to MaxApplications in all.       *)
(***************************************************************************)
MaxApplications == 2

ReconcileKeys == {<<<<"E", "1", "a">>, 1>>, <<<<"E", "1", "a">>, 2>>, <<<<"E", "1", "b">>, 1>>}

ReconcileCatalogues ==
    {cat \in [1..2 -> {Row(k[1], k[2], a, k[2]) : k \in ReconcileKeys, a \in {2, 3}}] :
        SortedDescending(cat) /\ UniqueKeys(cat)}

Allocations ==
    {rows \in UNION {[1..n -> {Row(k[1], k[2], a, k[2]) : k \in ReconcileKeys, a \in {1, 2}}] :
                        n \in {0, 1, 2}} : UniqueKeys(rows)}

InitReconcile ==
    /\ pc = "reconcile"
    /\ \E cat \in ReconcileCatalogues : scadaTH = cat /\ scadaPV = cat
    /\ allocs \in Allocations \X Allocations
    /\ applied = <<>>
    /\ areaTH = 0 /\ minGhiTH = 0 /\ rowsTH = <<>> /\ selTH = NoSelection
    /\ areaPV = 0 /\ minGhiPV = 0 /\ rowsPV = <<>> /\ selPV = NoSelection
    /\ error = None
    /\ spc = "idle" /\ payload = NoTriple /\ checked = NoTriple /\ parameters = NoTriple
    /\ cost = FZero /\ landUse = FZero /\ validated = FALSE
    /\ resolved = None /\ given = 0 /\ again = None
    /\ InitProcessIdle
    /\ InitValidatorIdle
    /\ InitCommandIdle

\* Lines 243-248 with rowsTH = allocs[a].
RemoveUsedAreas ==
    /\ pc = "reconcile"
    /\ Len(applied) < MaxApplications
    /\ \E a \in DOMAIN allocs :
         /\ scadaPV' = ReconcileFrom(scadaPV, allocs[a], 1)
         /\ rowsTH' = allocs[a]
         /\ applied' = Append(applied, a)
    /\ UNCHANGED <<pc, scadaTH, areaTH, minGhiTH, selTH, areaPV, minGhiPV, rowsPV, selPV,
                   error, allocs, sizingVars, processVars, validatorVars, commandVars>>

NextReconcile == RemoveUsedAreas

SpecReconcile == InitReconcile /\ [][NextReconcile]_vars

(***************************************************************************)
(* Properties of the sizing resolver (SpecSizing).                         *)
(***************************************************************************)
NonNull(p) == {i \in 1..3 : p[i] # None}
Field(t, h) == IF h = 1 THEN t.area ELSE IF h = 2 THEN t.power ELSE t.capex
Resolved == spc \in {"resolved", "recomputed"}

\* a and b differ by at most k * 2^-MantBits relative to the larger:
\* what k roundings of a float operation can separate.
FClose(a, b, k) ==
    IF a.m = 0 \/ b.m = 0 THEN a = b
    ELSE LET lo == IF a.e <= b.e THEN a.e ELSE b.e IN
         /\ (a.e - lo) + (b.e - lo) <= 1
         /\ LET x    == a.m * 2^(a.e - lo)
                y    == b.m * 2^(b.e - lo)
                diff == IF x >= y THEN x - y ELSE y - x
                big  == IF x >= y THEN x ELSE y
            IN /\ diff <= 2 * k
               /\ diff * 2^MantBits <= k * big

\* The two relations of the data model, evaluated as model.py evaluates them.
PowerOf(t) == PyDiv(FMul(t.area, landUse), Million)
CapexOf(t) == FMul(FMul(t.power, cost), Million)

\* C1 as stated: with exactly one field supplied and cost, landUse > 0 the
\* returned triple satisfies power = area * landUse / 1e6 and
\* capex = power * cost * 1e6 exactly, and returns the supplied field as given.
C1_RelationsExact ==
    (Resolved /\ Cardinality(NonNull(parameters)) = 1 /\ cost.m > 0 /\ landUse.m > 0)
    => /\ IsTriple(resolved)
       /\ resolved.power = PowerOf(resolved)
       /\ resolved.capex = CapexOf(resolved)
       /\ \A h \in NonNull(parameters) : Field(resolved, h) = parameters[h]

\* C1 amended: the supplied field is returned as given; the two relations hold
\* up to the rounding of the float operations between them (a relative
\* difference of at most 8 * 2^-MantBits), and exactly when area is the
\* supplied field.
C1_RelationsWithinRounding ==
    (Resolved /\ Cardinality(NonNull(parameters)) = 1 /\ cost.m > 0 /\ landUse.m > 0)
    => /\ IsTriple(resolved)
       /\ FClose(resolved.power, PowerOf(resolved), 8)
       /\ FClose(resolved.capex, CapexOf(resolved), 8)
       /\ \A h \in NonNull(parameters) : Field(resolved, h) = parameters[h]
       /\ parameters[1] # None =>
              /\ resolved.power = PowerOf(resolved)
              /\ resolved.capex = CapexOf(resolved)

\* C1 witness: a non-zero power alone was resolved and the recomputed power is
\* close to it without being equal.
C1_Witness ==
    /\ spc = "resolved" /\ NonNull(parameters) = {2} /\ cost.m > 0
    /\ IsTriple(resolved) /\ resolved.power # PowerOf(resolved)
    /\ FClose(resolved.power, PowerOf(resolved), 8)

\* C2: the first non-null field in the order [area, power, capex] alone
\* determines the result: the resolver returns what it returns for the triple
\* holding only that field, and returns that field as given.
C2_FirstNonNullDecides ==
    (Resolved /\ NonNull(parameters) # {})
    => LET first == CHOOSE i \in NonNull(parameters) :
                        \A j \in NonNull(parameters) : i <= j
           alone == [i \in 1..3 |-> IF i = first THEN parameters[i] ELSE None]
       IN /\ resolved = x03GetAvailableArea(alone, cost, landUse)
          /\ IsTriple(resolved) => Field(resolved, first) = parameters[first]

\* C2 witness: area, power and capex all supplied, with different values.
C2_Witness ==
    /\ spc = "resolved" /\ NonNull(parameters) = {1, 2, 3}
    /\ parameters[1] # parameters[2] /\ parameters[2] # parameters[3]
    /\ IsTriple(resolved) /\ resolved.area = parameters[1]

C4_RoundTripExact ==
    (spc = "recomputed" /\ Cardinality(NonNull(parameters)) = 1
        /\ given \notin NonNull(parameters) /\ cost.m > 0 /\ landUse.m > 0)
    => again = resolved

\* C4 amended: the second resolution returns the field it was given exactly
\* and every field of the first triple up to rounding (a relative difference
\* of at most 16 * 2^-MantBits).
C4_RoundTripWithinRounding ==
    (spc = "recomputed" /\ Cardinality(NonNull(parameters)) = 1
        /\ given \notin NonNull(parameters) /\ cost.m > 0 /\ landUse.m > 0)
    => /\ IsTriple(again)
       /\ Field(again, given) = Field(resolved, given)
       /\ \A h \in 1..3 : FClose(Field(again, h), Field(resolved, h), 16)

\* C4 witness: an area was resolved, then its capex alone, and the area came
\* back close to the original without being equal.
C4_Witness ==
    /\ spc = "recomputed" /\ NonNull(parameters) = {1} /\ given = 3 /\ cost.m > 0
    /\ IsTriple(again) /\ again.area # resolved.area
    /\ FClose(again.area, resolved.area, 16)

(***************************************************************************)
(* Properties of the region selection and the area reconciliation (Spec).  *)
(* The thermal selection ran on (scadaTH, areaTH, minGhiTH) and returned   *)
(* rowsTH; the PV selection ran on (scadaPV, areaPV, minGhiPV), scadaPV    *)
(* being the reconciled catalogue, and returned rowsPV.                    *)
(***************************************************************************)
ThermalSelected == pc \in {"s06", "s07", "failed"}
PVSelected == pc = "s07" \/ (pc = "failed" /\ error = Raised("AttributeError"))
Reconciled == pc = "s06" \/ PVSelected

RECURSIVE SumAreas(_)
SumAreas(rows) == IF rows = <<>> THEN 0 ELSE rows[1].Area_m2 + SumAreas(Tail(rows))

\* The catalogue position of a returned row (keys are unique).
PosOf(scada, row) == CHOOSE k \in DOMAIN scada : Key(scada[k]) = Key(row)

WithArea(row, a) == [row EXCEPT !.Area_m2 = a]

\* The returned areas add up to no more than the target; every row but the
\* last is its catalogue row; the last is its catalogue row, whole or cut to
\* what was left of the target.
BudgetKept(scada, area, rows) ==
    /\ SumAreas(rows) <= area
    /\ \A i \in DOMAIN rows :
         /\ \E k \in DOMAIN scada : Key(scada[k]) = Key(rows[i])
         /\ rows[i] = WithArea(scada[PosOf(scada, rows[i])], rows[i].Area_m2)
         /\ i < Len(rows) => rows[i] = scada[PosOf(scada, rows[i])]
         /\ i = Len(rows) =>
               \/ rows[i] = scada[PosOf(scada, rows[i])]
               \/ rows[i].Area_m2 = area - SumAreas(SubSeq(rows, 1, i - 1))

\* C5: the areas x04GetRegions allocates never add up to more than the target
\* area, and only the last returned record may differ in area from its
\* catalogue row (cut to the remaining budget).
C5_BudgetNeverExceeded ==
    /\ ThermalSelected => BudgetKept(scadaTH, areaTH, rowsTH)
    /\ PVSelected => BudgetKept(scadaPV, areaPV, rowsPV)

\* C5 witness: two rows returned, the second cut below its catalogue area,
\* the target met exactly.
C5_Witness ==
    /\ ThermalSelected /\ Len(rowsTH) = 2
    /\ rowsTH[2].Area_m2 < scadaTH[PosOf(scadaTH, rowsTH[2])].Area_m2
    /\ rowsTH[2].Area_m2 > 0
    /\ SumAreas(rowsTH) = areaTH

\* C6 as stated: no returned record has a Median_Radiation (the column the
\* catalogue is ranked by) below the floor.
C6_FloorOnMedianRadiation ==
    /\ ThermalSelected => \A i \in DOMAIN rowsTH : rowsTH[i].Median_Radiation >= minGhiTH
    /\ PVSelected => \A i \in DOMAIN rowsPV : rowsPV[i].Median_Radiation >= minGhiPV

\* C6 amended: no returned record has a Threshold below the floor (the floor
\* is tested on the Threshold column, not on Median_Radiation).
C6_FloorOnThreshold ==
    /\ ThermalSelected => \A i \in DOMAIN rowsTH : rowsTH[i].Threshold >= minGhiTH
    /\ PVSelected => \A i \in DOMAIN rowsPV : rowsPV[i].Threshold >= minGhiPV

\* C6 witness: a row of positive area under the floor was passed over and a
\* later row returned.
C6_Witness ==
    /\ ThermalSelected /\ Len(scadaTH) = 2 /\ Len(rowsTH) = 1
    /\ scadaTH[1].Threshold < minGhiTH /\ scadaTH[1].Area_m2 > 0
    /\ scadaTH[1].Region # selTH.nameNuts2
    /\ Key(rowsTH[1]) = Key(scadaTH[2])

\* The forward pass, stated on the catalogue: the rows that qualify, in
\* catalogue order and whole, up to the first one that does not fit; that one
\* cut to the target minus the areas before it; nothing after it.
GreedyPass(scada, area, minGHI, rows, sel) ==
    LET name      == StripLast(scada[1].Region)
        qual      == {k \in DOMAIN scada : Qualifies(scada[k], name, minGHI)}
        Before(k) == SumAreas(SelectSeq(SubSeq(scada, 1, k - 1),
                                        LAMBDA r : Qualifies(r, name, minGHI)))
        over      == {k \in qual : Before(k) + scada[k].Area_m2 > area}
        last      == IF over = {} THEN Len(scada)
                     ELSE CHOOSE k \in over : \A j \in over : k <= j
        taken     == {k \in qual : k <= last}
    IN /\ sel.read = last
       /\ Len(rows) = Cardinality(taken)
       /\ \A i \in DOMAIN rows :
            /\ \E k \in taken : Key(scada[k]) = Key(rows[i])
            /\ \A j \in DOMAIN rows : i < j => PosOf(scada, rows[i]) < PosOf(scada, rows[j])
            /\ LET k == PosOf(scada, rows[i]) IN
               rows[i] = IF k \in over THEN WithArea(scada[k], area - Before(k))
                         ELSE scada[k]

\* C7: x04GetRegions is one greedy forward pass: qualifying records are
\* appended whole, in catalogue order, while they fit; the first that does
\* not fit is appended with area target minus running sum; no later record
\* is read or appended.
C7_GreedyForwardPass ==
    /\ ThermalSelected => GreedyPass(scadaTH, areaTH, minGhiTH, rowsTH, selTH)
    /\ PVSelected => GreedyPass(scadaPV, areaPV, minGhiPV, rowsPV, selPV)

\* C7 witness: the spec's scenario in small: areas [2, 2], target 3, both over
\* the floor, allocated [2, 1].
C7_Witness ==
    /\ ThermalSelected /\ Len(scadaTH) = 2 /\ areaTH = 3
    /\ scadaTH[1].Area_m2 = 2 /\ scadaTH[2].Area_m2 = 2
    /\ Len(rowsTH) = 2 /\ rowsTH[1].Area_m2 = 2 /\ rowsTH[2].Area_m2 = 1

\* C8 as stated: with a target area of 0 no record is returned, and the region
\* name is the first row's Region without its last character.
C8_ZeroTargetSelectsNothing ==
    /\ (ThermalSelected /\ areaTH = 0) =>
           /\ rowsTH = <<>>
           /\ selTH.nameNuts2 = StripLast(scadaTH[1].Region)
    /\ (PVSelected /\ areaPV = 0) =>
           /\ rowsPV = <<>>
           /\ selPV.nameNuts2 = StripLast(scadaPV[1].Region)

\* C9: after the thermal step, for every record thermal consumed, the PV
\* catalogue row of the same (Region, Threshold) holds its loaded area minus
\* the area allocated to thermal for that record, neither more nor clamped.
C9_ThermalAreaSubtracted ==
    Reconciled =>
        \A j \in DOMAIN rowsTH :
            /\ Cardinality({k \in DOMAIN scadaPV : Key(scadaPV[k]) = Key(rowsTH[j])}) = 1
            /\ \A k \in DOMAIN scadaPV :
                 Key(scadaPV[k]) = Key(rowsTH[j]) =>
                     scadaPV[k].Area_m2 = scadaTH[k].Area_m2 - rowsTH[j].Area_m2

\* C9 witness: thermal took one row whole and cut the next: the first PV row
\* is left with area 0, the second with the uncut remainder.
C9_Witness ==
    /\ pc = "s06" /\ Len(rowsTH) = 2
    /\ scadaPV[PosOf(scadaPV, rowsTH[1])].Area_m2 = 0
    /\ rowsTH[2].Area_m2 > 0
    /\ scadaPV[PosOf(scadaPV, rowsTH[2])].Area_m2 > 0

\* C10: the reconciliation keeps the number and the order of the PV rows,
\* changes no column but Area_m2, and leaves alone every row whose
\* (Region, Threshold) is the key of no thermal record.
C10_ReconcileFrame ==
    Reconciled =>
        /\ Len(scadaPV) = Len(scadaTH)
        /\ \A k \in DOMAIN scadaPV :
             /\ scadaPV[k] = WithArea(scadaTH[k], scadaPV[k].Area_m2)
             /\ (\A j \in DOMAIN rowsTH : Key(rowsTH[j]) # Key(scadaPV[k]))
                    => scadaPV[k] = scadaTH[k]

\* C10 witness: thermal consumed one tier of a region and the PV catalogue
\* keeps the other tier of the same region as loaded.
C10_Witness ==
    /\ pc = "s06" /\ Len(rowsTH) = 1 /\ Len(scadaPV) = 2
    /\ rowsTH[1].Area_m2 > 0
    /\ \E k, l \in DOMAIN scadaPV :
         /\ Key(scadaPV[k]) = Key(rowsTH[1])
         /\ scadaPV[k] # scadaTH[k]
         /\ scadaPV[l].Region = rowsTH[1].Region
         /\ scadaPV[l].Threshold # rowsTH[1].Threshold
         /\ scadaPV[l].Area_m2 > 0
         /\ scadaPV[l] = scadaTH[l]

\* The PV catalogue once every thermal record has been subtracted from the
\* catalogue as loaded.
FullyReconciled == ReconcileFrom(scadaTH, rowsTH, 1)

\* C11: in every run the PV region selection reads the fully reconciled
\* catalogue: when it has run, the frame it read is the loaded catalogue
\* minus every thermal record, and what it returned is the selection over
\* that frame, never over the original or a partly reconciled one.
C11_PVSelectsAfterReconciliation ==
    PVSelected =>
        /\ scadaPV = FullyReconciled
        /\ LET sel == x04GetRegions(FullyReconciled, areaPV, minGhiPV) IN
           /\ rowsPV = sel.rows
           /\ selPV = [nameNuts2 |-> sel.nameNuts2, read |-> sel.read]

\* C11 witness: thermal consumed two records and the PV selection returned
\* something else than it would have over the catalogue as loaded or over
\* the catalogue with only the first record subtracted.
C11_Witness ==
    /\ pc = "s07" /\ Len(rowsTH) = 2 /\ rowsTH[2].Area_m2 > 0
    /\ rowsPV # x04GetRegions(scadaTH, areaPV, minGhiPV).rows
    /\ rowsPV # x04GetRegions(ReconcileRow(scadaTH, rowsTH[1]), areaPV, minGhiPV).rows

(***************************************************************************)
(* Properties of one call of executeSolarEnergyModelProcess (SpecProcess). *)
(***************************************************************************)
\* The positions of the queries of one pass, in the order they were sent.
QueriesOf(pass) == SelectSeq(queries, LAMBDA q : q.pass = pass)

\* Both passes ran to the end over rowsPV and s06 blended them.
Blended == prodPV # <<>>

\* C12: for every selected PV sub-region and every hour the production that
\* enters the aggregate is tracking * tracked + (1 - tracking) * fixed, the
\* two series being those of the pass with tracking mode 1 and of the pass
\* with mode 0 over the same rows in the same order; with tracking = 1 it is
\* the tracked series and with tracking = 0 the fixed one.
C12_BlendOfTwoPasses ==
    Blended =>
        /\ Len(prodPV) = Len(rowsPV)
        /\ Len(prodPVTracking) = Len(rowsPV) /\ Len(prodPVFixed) = Len(rowsPV)
        /\ \A pass \in {"tracking", "fixed"} :
             /\ Len(QueriesOf(pass)) = Len(rowsPV)
             /\ \A i \in DOMAIN rowsPV : QueriesOf(pass)[i].region = i
        /\ \A i \in DOMAIN rowsPV : \A h \in Hours :
             prodPV[i][h] = Pct(prodPVTracking[i][h], tracking)
                            + Pct(prodPVFixed[i][h], 100 - tracking)
        /\ tracking = 100 => prodPV = prodPVTracking
        /\ tracking = 0 => prodPV = prodPVFixed
        /\ output # None =>
             \A h \in Hours : output.table[h].Ppv = SumAt(prodPV, h)

\* C12 witness: two PV sub-regions, half of the capacity tracked, the two
\* passes answered differently for the first one, and the table is built.
C12_Witness ==
    /\ Blended /\ Len(rowsPV) = 2 /\ tracking = 50
    /\ prodPVTracking[1] # prodPVFixed[1]
    /\ prodPV[1] # prodPVTracking[1] /\ prodPV[1] # prodPVFixed[1]
    /\ output # None

\* C13 as stated: for every PV query, a computed peak power over the
\* collaborator's ceiling is sent divided by 1000 and the answer multiplied
\* by 1000, so that peak power sent * factor = computed peak power; at or
\* under the ceiling neither is scaled.
C13_ScaledDownAndBack ==
    \A j \in DOMAIN queries :
        LET q == queries[j] IN
        q.pass # "thermal" =>
            /\ q.peakpower * q.factor = q.computed
            /\ q.computed > Ceiling => (q.peakpower * 1000 = q.computed /\ q.factor = 1000)
            /\ q.computed <= Ceiling => (q.peakpower = q.computed /\ q.factor = 1)

\* C14 as stated: with an empty thermal allocation the run does not fail in
\* its own steps: unless a collaborator query failed, s05 to s09 produce the
\* result, with its PV column, for the PV rows selected.
C14_EmptyThermalDegrades ==
    (rowsTH = <<>> /\ rowsPV # <<>> /\ ppc = "returned"
        /\ \A j \in DOMAIN queries : queries[j].ok)
    => /\ output # None
       /\ \A h \in Hours : "Ppv" \in DOMAIN output.table[h]

\* The capacity installed on a list of rows.
RECURSIVE Capacity(_, _)
Capacity(rows, lu) ==
    IF rows = <<>> THEN 0 ELSE PeakPower(rows[1], lu) + Capacity(Tail(rows), lu)

\* C15: the two OPEX totals are opexTH times the sum of the thermal
\* capacities and opexPV times the sum of the PV capacities, every capacity
\* counted in exactly one of the sums; {A_thermal: 1000, B_pv: 2000} at rates
\* 10 and 5 gives (10000, 10000); the capacities are left as they were.
C15_OpexTotals ==
    /\ LET example == [k \in {Tagged(<<"A">>, Thermal), Tagged(<<"B">>, Pv)} |->
                          IF k = Tagged(<<"A">>, Thermal) THEN 1000 ELSE 2000]
       IN x08CalculateOpex(example, 10, 5) = <<10000, 10000>>
    /\ output # None =>
         LET dict == output.dict
             caps == DOMAIN dict \ {Tagged(Opex, Thermal), Tagged(Opex, Pv)}
         IN /\ dict[Tagged(Opex, Thermal)]
                   = output.opexTH * Capacity(rowsTH, land_use_thermal)
            /\ dict[Tagged(Opex, Pv)] = output.opexPV * Capacity(rowsPV, land_use_pv)
            /\ SumValues(dict, caps)
                   = Capacity(rowsTH, land_use_thermal) + Capacity(rowsPV, land_use_pv)
            /\ \A i \in DOMAIN rowsTH :
                 dict[Tagged(rowsTH[i].Region, Thermal)]
                     = x07Pots(rowsTH, land_use_thermal)[rowsTH[i].Region]
            /\ \A i \in DOMAIN rowsPV :
                 dict[Tagged(rowsPV[i].Region, Pv)]
                     = x07Pots(rowsPV, land_use_pv)[rowsPV[i].Region]

\* C15 witness: two thermal and two PV sub-regions of the same two Regions,
\* rates 10 and 5, both totals positive and different.
C15_Witness ==
    /\ output # None /\ Len(rowsTH) = 2 /\ Len(rowsPV) = 2
    /\ output.opexTH = 10 /\ output.opexPV = 5
    /\ output.dict[Tagged(Opex, Thermal)] > 0
    /\ output.dict[Tagged(Opex, Pv)] > output.dict[Tagged(Opex, Thermal)]

\* C16: if a value of the Pthermal or Ppv column inside the requested window
\* is negative the call reports failure (returns None); if none is, the call
\* returns the table cut to the window.
C16_NegativeOutputFails ==
    (ppc = "returned" /\ resultFiltered # None) =>
        /\ \E start \in Hours, end \in Hours :
               resultFiltered = Filtered(output.table, start, end)
        /\ IF \E c \in {"Pthermal", "Ppv"} :
                 \E j \in DOMAIN resultFiltered[c] : resultFiltered[c][j] < 0
           THEN result = None
           ELSE result = resultFiltered

\* C16 witness: the only negative value is in Pthermal, inside the window,
\* and the call returned None.
C16_Witness ==
    /\ ppc = "returned" /\ resultFiltered # None /\ result = None
    /\ \E j \in DOMAIN resultFiltered["Pthermal"] : resultFiltered["Pthermal"][j] < 0
    /\ \A j \in DOMAIN resultFiltered["Ppv"] : resultFiltered["Ppv"][j] >= 0

\* C17: a query the collaborator fails is the last query of the run (it is
\* not sent again and no later sub-region is queried), no sub-region is
\* queried twice in a pass, and the run ends without a result: executeModel
\* returns nothing and the caller receives None, no partial output.
C17_CollaboratorFailureAborts ==
    /\ \A j \in DOMAIN queries : ~queries[j].ok => j = Len(queries)
    /\ \A j, k \in DOMAIN queries :
         (queries[j].pass = queries[k].pass /\ queries[j].region = queries[k].region)
             => j = k
    /\ (\E j \in DOMAIN queries : ~queries[j].ok) =>
         /\ ppc \in {"except", "returned"}
         /\ output = None /\ resultFiltered = None
         /\ prodPV = <<>>
         /\ result = IF ppc = "returned" THEN None ELSE Pending

\* C17 witness: the fixed pass failed on the first of two sub-regions after
\* the thermal pass and the whole tracking pass had answered; the caller got
\* None.
C17_Witness ==
    /\ ppc = "returned" /\ result = None /\ Len(rowsPV) = 2
    /\ Len(queries) = Len(rowsTH) + 3
    /\ ~queries[Len(queries)].ok
    /\ queries[Len(queries)].pass = "fixed" /\ queries[Len(queries)].region = 1

\* The keys of the dictionary a successful call returns.
ResultKeys == {"time(UTC)", "Pthermal", "Ppv"}

\* C18: the call never lets an exception out: whatever step raised, the
\* caller receives None; a call that ended without an exception returns a
\* dictionary with the keys time(UTC), Pthermal and Ppv.
C18_FailureIsNone ==
    ppc = "returned" =>
        /\ error # None => result = None
        /\ error = None => (result # None /\ DOMAIN result = ResultKeys)

\* C18 witness: s05 raised (no thermal row) and the caller received None.
C18_Witness ==
    /\ ppc = "returned" /\ error = Raised("UnboundLocalError") /\ result = None

(***************************************************************************)
(* Properties of validateProcessPayload as main calls it (SpecValidator).  *)
(***************************************************************************)
RuleOf(k) == Rules[CHOOSE i \in DOMAIN Rules : Rules[i].name = k]

Validated == outcome # Pending

\* Every property is in the payload, and null only where null is accepted.
Present(p) ==
    \A k \in Properties : p[k] # Absent /\ (p[k] = None => RuleOf(k).nullable)

\* Property k holds a value, and the value is outside what its block accepts.
InvalidValue(p, k) ==
    /\ p[k] # Absent /\ p[k] # None
    /\ IF RuleOf(k).kind = "region" THEN Upper(Strip(p[k].str)) \notin REGION_LIST
       ELSE IF RuleOf(k).kind = "flag" THEN p[k].num \notin {0, 1}
       ELSE ~(RuleOf(k).lo <= p[k].num /\ p[k].num <= RuleOf(k).hi)

\* What is claimed of out-of-range values, with Hard the properties whose
\* invalid value is said to raise: validation of a payload with nothing
\* missing raises exactly when one of Hard is invalid, and otherwise returns
\* the payload with the default in place of every out-of-range value.
OutOfRangePolicy(Hard) ==
    (Validated /\ Present(processPayload)) =>
        /\ IsRaised(outcome) <=> \E k \in Hard : InvalidValue(processPayload, k)
        /\ ~IsRaised(outcome) =>
              \A k \in Properties \ Hard :
                  InvalidValue(processPayload, k) =>
                      outcome[k] = Num(RuleOf(k).default)

\* C19 (as stated): an out-of-range value of a present, non-null numeric or
\* boolean property is replaced by the default without raising; only an
\* invalid nutsid or pvgis_year makes validation raise.
C19_OnlyRegionAndYearRaise == OutOfRangePolicy({"nutsid", "pvgis_year"})

\* C19 (amended): an out-of-range value of a present, non-null numeric
\* property is replaced by the default without raising; the properties whose
\* invalid value makes validation raise are nutsid, convert_coord and
\* pvgis_year.
C19_OnlyRegionFlagAndYearRaise ==
    OutOfRangePolicy({"nutsid", "convert_coord", "pvgis_year"})

\* A payload with loss above its range was validated without an exception
\* and came back with the default loss.
C19_Witness ==
    /\ Validated /\ Present(processPayload)
    /\ processPayload["loss"] = Num(21)
    /\ ~IsRaised(outcome)
    /\ outcome["loss"] = Num(14)

SingleMissing(p) ==
    \E k \in Properties : p[k] = Absent /\ \A j \in Properties \ {k} : p[j] # Absent

AllInRange(p) ==
    \A k \in Properties :
        p[k] # Absent /\ p[k] # None /\ ~InvalidValue(p, k)

\* C20: a payload from which a single property is missing is rejected with
\* an exception and the model is never started; a payload in which every
\* property is present with an in-range value is accepted and returned
\* unchanged.
C20_MissingRejectedValidUnchanged ==
    /\ SingleMissing(processPayload) =>
          /\ ~started
          /\ Validated => IsRaised(outcome)
    /\ (AllInRange(processPayload) /\ Validated) => outcome = processPayload

\* The payload without tracking_percentage was rejected before the model.
C20_Witness ==
    /\ Validated
    /\ SingleMissing(processPayload)
    /\ processPayload["tracking_percentage"] = Absent
    /\ IsRaised(outcome)
    /\ ~started

(***************************************************************************)
(* Properties of validateCommandLineParameters (SpecCommandLine).          *)
(***************************************************************************)
\* s is written yyyy-MM-ddTHH:mm:ss, every field with all its digits, and
\* names a datetime.
WellFormed(s) ==
    /\ Len(s) = 19
    /\ \A i \in {1, 2, 3, 4, 6, 7, 9, 10, 12, 13, 15, 16, 18, 19} : s[i] \in Digits
    /\ s[5] = "-" /\ s[8] = "-" /\ s[11] = "T" /\ s[14] = ":" /\ s[17] = ":"
    /\ ~IsRaised(strptime(s))

\* Datetime a is strictly later than datetime b.
Later(a, b) ==
    \E i \in 1..6 : a[i] > b[i] /\ \A j \in 1..(i - 1) : a[j] = b[j]

\* sys.argv is one the validator should let through.
GoodCommandLine ==
    /\ Len(argv) = 4
    /\ Strip(argv[2]) \in ExistingPaths
    /\ WellFormed(argv[3]) /\ WellFormed(argv[4])
    /\ Later(strptime(argv[4]), strptime(argv[3]))

\* C21: validateCommandLineParameters raises whenever there are not exactly
\* 4 parameters, the payload file does not exist, a datetime is not written
\* yyyy-MM-ddTHH:mm:ss or the end is not strictly later than the start, and
\* raises nothing otherwise.
C21_CommandLineRejectedIffBad ==
    argvOutcome # Pending => (IsRaised(argvOutcome) <=> ~GoodCommandLine)

(***************************************************************************)
(* Further properties of the sizing resolver (SpecSizing).                 *)
(***************************************************************************)
\* C22: x03GetAvailableArea has no error outcome: for every triple, the
\* all-null one included, and every cost and landUse, a cost of 0
\* included, it returns a triple, and it leaves its parameter list as it
\* was given.
C22_ResolverHasNoErrorOutcome ==
    Resolved =>
        /\ IsTriple(resolved)
        /\ parameters = <<checked[1], checked[2], checked[3]>>

(***************************************************************************)
(* Further properties of the selection and the reconciliation (Spec).      *)
(***************************************************************************)
\* The name x04GetRegions returned is the first row's identifier without
\* its last character, and no returned row has a catalogue area <= 0.
NameFixedAreaPositive(scada, rows, sel) ==
    /\ sel.nameNuts2 = StripLast(scada[1].Region)
    /\ \A i \in DOMAIN rows : scada[PosOf(scada, rows[i])].Area_m2 > 0

\* C23 (as stated): the region name is the first row's identifier without
\* its last character, fixed for the pass; every record whose identifier
\* without its suffix equals that name is skipped, and so is every record
\* whose area is <= 0.
C23_SkipsBySuffixlessIdentifier ==
    /\ ThermalSelected =>
          /\ NameFixedAreaPositive(scadaTH, rowsTH, selTH)
          /\ \A i \in DOMAIN rowsTH : StripLast(rowsTH[i].Region) # selTH.nameNuts2
    /\ PVSelected =>
          /\ NameFixedAreaPositive(scadaPV, rowsPV, selPV)
          /\ \A i \in DOMAIN rowsPV : StripLast(rowsPV[i].Region) # selPV.nameNuts2

\* C23 (amended): the region name is the first row's identifier without its
\* last character, fixed for the pass; every record whose identifier itself
\* equals that name (the row of the region) is skipped, and so is every
\* record whose area is <= 0.
C23_SkipsByIdentifier ==
    /\ ThermalSelected =>
          /\ NameFixedAreaPositive(scadaTH, rowsTH, selTH)
          /\ \A i \in DOMAIN rowsTH : rowsTH[i].Region # selTH.nameNuts2
    /\ PVSelected =>
          /\ NameFixedAreaPositive(scadaPV, rowsPV, selPV)
          /\ \A i \in DOMAIN rowsPV : rowsPV[i].Region # selPV.nameNuts2

\* The catalogue is a sub-region followed by the row of its region; the
\* region's row has area and passes the floor, the target is not met by the
\* first row, and only the sub-region is returned.
C23_Witness ==
    /\ ThermalSelected /\ Len(scadaTH) = 2 /\ Len(rowsTH) = 1
    /\ scadaTH[2].Region = StripLast(scadaTH[1].Region)
    /\ selTH.nameNuts2 = scadaTH[2].Region
    /\ scadaTH[2].Area_m2 > 0 /\ scadaTH[2].Threshold >= minGhiTH
    /\ areaTH > scadaTH[1].Area_m2
    /\ rowsTH[1] = scadaTH[1]

\* The area the rows of an allocation hold for the key of `row`.
RECURSIVE MatchedArea(_, _)
MatchedArea(rows, row) ==
    IF rows = <<>> THEN 0
    ELSE (IF Key(rows[1]) = Key(row) THEN rows[1].Area_m2 ELSE 0) + MatchedArea(Tail(rows), row)

\* The area all the applications so far should have taken from `row`.
RECURSIVE Subtracted(_, _)
Subtracted(apps, row) ==
    IF apps = <<>> THEN 0
    ELSE MatchedArea(allocs[apps[1]], row) + Subtracted(Tail(apps), row)

\* C24: reconciliation is linear: every row of the PV catalogue has lost,
\* for each application, exactly the area of the allocation's row with its
\* (Region, Threshold) key, so the same allocation twice takes twice what
\* it takes once, and two allocations on distinct keys each take from
\* their own rows only, in either order.
C24_ReconciliationIsLinear ==
    pc = "reconcile" =>
        /\ Len(scadaPV) = Len(scadaTH)
        /\ \A k \in DOMAIN scadaTH :
             scadaPV[k] = WithArea(scadaTH[k],
                                   scadaTH[k].Area_m2 - Subtracted(applied, scadaTH[k]))

\* The same allocation was applied twice to a row it matches, taking more
\* than the row had.
C24_Witness ==
    /\ pc = "reconcile" /\ applied = <<1, 1>>
    /\ MatchedArea(allocs[1], scadaTH[1]) = 2
    /\ scadaTH[1].Area_m2 = 3
    /\ scadaPV[1].Area_m2 = -1

(***************************************************************************)
(* Further properties of one call of executeSolarEnergyModelProcess        *)
(* (SpecProcess).                                                          *)
(***************************************************************************)
\* irradiance * (total thermal area * aperture fraction) * thermal
\* efficiency * optical efficiency / 1e6
OnTotalArea(irradiance) ==
    LET apertureArea == (areaTH * aperture) \div 100
        afterThermal == ((irradiance * apertureArea) * efficiency_thermal) \div 100
        afterOptical == (afterThermal * efficiency_optical) \div 100
    IN afterOptical \div 1000000

RECURSIVE SeriesSum(_, _, _)
SeriesSum(prod, h, n) == IF n = 0 THEN 0 ELSE prod[n][h] + SeriesSum(prod, h, n - 1)

\* C25: the thermal production of a selected sub-region at an hour is
\* irradiance * (total thermal area * aperture) * thermal efficiency *
\* optical efficiency / 1e6, whatever area the sub-region was allocated;
\* the aggregated thermal series is the sum of the sub-regions' series, and
\* the installed capacity recorded for a sub-region is its own allocated
\* area * landUse / 1e6.
C25_ThermalOnTotalArea ==
    /\ \A i \in DOMAIN prodTH : \A h \in Hours :
          prodTH[i][h] = OnTotalArea(dniTH[i][h])
    /\ output # None =>
          /\ \A h \in Hours :
                output.table[h].Pthermal = SeriesSum(prodTH, h, Len(prodTH))
          /\ \A i \in DOMAIN rowsTH :
                output.dict[Tagged(rowsTH[i].Region, Thermal)] =
                    (rowsTH[i].Area_m2 * land_use_thermal) \div 1000000

\* Two sub-regions with different allocated areas and the same irradiance
\* produced the same series; the results hold their sum and two different
\* capacities.
C25_Witness ==
    /\ output # None /\ Len(rowsTH) = 2
    /\ rowsTH[1].Area_m2 = 1000000 /\ rowsTH[2].Area_m2 = 3000000
    /\ dniTH = << <<2, 0>>, <<2, 0>> >>
    /\ prodTH = << <<2, 0>>, <<2, 0>> >>
    /\ output.table[1].Pthermal = 4
    /\ output.dict[Tagged(rowsTH[1].Region, Thermal)] = 50
    /\ output.dict[Tagged(rowsTH[2].Region, Thermal)] = 150

RegionsOf(rows) == {rows[i].Region : i \in DOMAIN rows}

\* C26: s09SaveResults produces exactly one drill-down table per distinct
\* sub-region of the distribution table, and the table of a sub-region holds
\* exactly that sub-region's columns, one per technology it has, each under
\* the technology suffix of the column <subregion>_<suffix> it was filled
\* from; no column of another sub-region is in it.
C26_OneTablePerSubRegion ==
    output # None =>
        /\ Len(output.drill) = Cardinality(RegionsOf(rowsTH) \cup RegionsOf(rowsPV))
        /\ \A i, j \in DOMAIN output.drill :
              output.drill[i].nuts3 = output.drill[j].nuts3 => i = j
        /\ \A i \in DOMAIN output.drill :
              LET t == output.drill[i] IN
              /\ t.nuts3 \in RegionsOf(rowsTH) \cup RegionsOf(rowsPV)
              /\ DOMAIN t.columns =
                    (IF t.nuts3 \in RegionsOf(rowsTH) THEN {Pthermal} ELSE {})
                    \cup (IF t.nuts3 \in RegionsOf(rowsPV) THEN {Ppv} ELSE {})
              /\ \A suffix \in DOMAIN t.columns :
                    t.columns[suffix].name = Tagged(t.nuts3, suffix)

RECURSIVE ColumnsSum(_, _, _)
ColumnsSum(frame, h, n) ==
    IF n = 0 THEN 0 ELSE frame[n].data[h] + ColumnsSum(frame, h, n - 1)

\* C27: in the PV results, at every hour the per-sub-region PV distribution
\* series (nuts2PV) add up to the aggregated PV series (dfPV, the column
\* Ppv): both are the tracking-weighted blend of the two passes.
C27_DistributionAddsUpToAggregate ==
    output # None =>
        \A h \in Hours :
            ColumnsSum(output.nuts2PV, h, Len(output.nuts2PV)) = output.table[h].Ppv

\* C28: with both catalogues loaded from the same dataset (areas >= 0,
\* unique keys), for every key the area allocated to thermal plus the area
\* allocated to PV is at most the catalogue area of the key, and a key whose
\* whole area went to thermal is not selected for PV.
C28_AllocationsWithinCatalogue ==
    PVSelected =>
        \A k \in DOMAIN scadaTH :
            /\ MatchedArea(rowsTH, scadaTH[k]) + MatchedArea(rowsPV, scadaTH[k])
                   <= scadaTH[k].Area_m2
            /\ (scadaTH[k].Area_m2 > 0
                    /\ MatchedArea(rowsTH, scadaTH[k]) = scadaTH[k].Area_m2)
                   => \A i \in DOMAIN rowsPV : Key(rowsPV[i]) # Key(scadaTH[k])

\* Thermal took the first row whole and half of the second; PV, with a
\* target of more than is left, got only the other half of the second.
C28_Witness ==
    /\ PVSelected /\ Len(scadaTH) = 2
    /\ scadaTH[1].Area_m2 = 1 /\ scadaTH[2].Area_m2 = 2
    /\ MatchedArea(rowsTH, scadaTH[1]) = 1 /\ MatchedArea(rowsTH, scadaTH[2]) = 1
    /\ areaPV = 3 /\ minGhiPV <= scadaTH[1].Threshold
    /\ Len(rowsPV) = 1 /\ Key(rowsPV[1]) = Key(scadaTH[2]) /\ rowsPV[1].Area_m2 = 1

\* C29: every record x04GetRegions returns has an allocated area strictly
\* greater than 0 and no greater than the record's catalogue area, for every
\* catalogue, floor and target >= 0, and the selection leaves the catalogue
\* it was given as it was.
C29_ReturnedAreasPositive ==
    /\ ThermalSelected =>
          \A i \in DOMAIN rowsTH :
              /\ rowsTH[i].Area_m2 > 0
              /\ rowsTH[i].Area_m2 <= scadaTH[PosOf(scadaTH, rowsTH[i])].Area_m2
    /\ PVSelected =>
          \A i \in DOMAIN rowsPV :
              /\ rowsPV[i].Area_m2 > 0
              /\ rowsPV[i].Area_m2 <= scadaPV[PosOf(scadaPV, rowsPV[i])].Area_m2
    /\ pc \in {"s05", "s06", "s07", "failed"} => SortedDescending(scadaTH) /\ UniqueKeys(scadaTH)

(***************************************************************************)
(* Further properties of validateProcessPayload (SpecValidator).           *)
(***************************************************************************)
\* C30: when validateProcessPayload returns, every range-checked property
\* of the returned payload is inside its range (a substituted default is in
\* range too), and validating the returned payload again returns it as it
\* is.
C30_ReturnedPayloadInRange ==
    (Validated /\ ~IsRaised(outcome)) =>
        /\ \A k \in Properties : ~InvalidValue(outcome, k)
        /\ outcomeAgain # Pending => outcomeAgain = outcome

====
